---- MODULE Spec2Model ----
(***************************************************************************)
(* A model of the BART routing table (balanced ART, a 256-ary multibit     *)
(* trie with path compressed leaves): node.go, overlaps.go, the sparse     *)
(* array, the base index mapping and the Table facade that drives them.    *)
(*                                                                         *)
(* Nodes and leaves are heap objects addressed by reference, as in the Go  *)
(* code, so that sharing between tables (Clone, InsertPersist, Union) is   *)
(* something the model can get wrong.                                      *)
(***************************************************************************)
EXTENDS Integers, Sequences, FiniteSets, TLC

\* ------------------------------------------------------------------------
\* Bounds of the model
\* ------------------------------------------------------------------------

\* the largest number of prefixes a table is grown to by Insert
MaxSize == 3

\* the largest number of prefixes of the second table (Union and Overlaps operand)
MaxOther == 2

\* ------------------------------------------------------------------------
\* Program constants
\* ------------------------------------------------------------------------

strideLen == 8

maxTreeDepth == 16

maxItems == 256

firstHostIndex == 256

lastHostIndex == 511

magicNumber == 15

\* the zero value of V
Zero == 0

\* the payload values
Values == {1, 2}

\* ------------------------------------------------------------------------
\* Prefixes and addresses (net/netip), octets big-endian
\* ------------------------------------------------------------------------

Pfx4(a, b, c, d, bits) == [addr |-> <<a, b, c, d>>, bits |-> bits, is4 |-> TRUE]

Addr4(a, b, c, d) == [addr |-> <<a, b, c, d>>, is4 |-> TRUE]

\* 2001:db8::x
V6Addr(x) == <<32, 1, 13, 184, 0, 0, 0, 0, 0, 0, 0, 0, 0, 0, 0, x>>

Pfx6(x, bits) == [addr |-> V6Addr(x), bits |-> bits, is4 |-> FALSE]

Addr6(x) == [addr |-> V6Addr(x), is4 |-> FALSE]

\* The prefixes the operations are called with: they meet as node prefixes,
\* as path compressed leaves and as fringes at every level down to the host
\* routes of the last octet.
PfxUniverse ==
  { Pfx4(10, 0, 0, 0, 7),     \* prefix idx 133 in the root
    Pfx4(10, 0, 0, 0, 8),     \* fringe at depth 0, default route of a node at depth 1
    Pfx4(10, 0, 0, 0, 24),    \* leaf, fringe at depth 2
    Pfx4(10, 0, 1, 0, 24),
    Pfx4(10, 0, 0, 0, 30),    \* prefix idx 64 in a node at depth 3
    Pfx4(10, 0, 0, 1, 32),    \* host route, fringe at depth 3
    Pfx4(10, 0, 0, 2, 32),
    Pfx6(0, 32),              \* 2001:db8::/32
    Pfx6(1, 128) }            \* 2001:db8::1/128

\* The prefixes of the two table runs: 10.0.0.0/8 is a fringe in the root or
\* the default route of the node below it, a host route is a leaf or, beside
\* the other one, a fringe at depth 3.
PfxTwo ==
  { Pfx4(10, 0, 0, 0, 8), Pfx4(10, 0, 0, 1, 32), Pfx4(10, 0, 0, 2, 32), Pfx6(0, 32) }

\* The prefixes of a table and its clone: 10.0.0.0/8, 10.0.0.1/32 and 2000::/8.
PfxClone ==
  { Pfx4(10, 0, 0, 0, 8), Pfx4(10, 0, 0, 1, 32),
    [addr |-> <<32, 0, 0, 0, 0, 0, 0, 0, 0, 0, 0, 0, 0, 0, 0, 0>>, bits |-> 8, is4 |-> FALSE] }

\* The prefixes OverlapsPrefix is asked about: stored ones, and ones above,
\* below and beside them.
QueryUniverse ==
  PfxUniverse \cup { Pfx4(0, 0, 0, 0, 0), Pfx4(10, 0, 0, 0, 16), Pfx4(10, 0, 0, 0, 31),
                     Pfx4(11, 0, 0, 0, 8), Pfx4(10, 0, 0, 3, 32), Pfx6(0, 0), Pfx6(2, 128) }

\* The addresses looked up.
AddrUniverse ==
  { Addr4(10, 0, 0, 1), Addr4(10, 0, 0, 2), Addr4(10, 0, 0, 5), Addr4(10, 0, 1, 17),
    Addr4(10, 1, 0, 0), Addr4(11, 0, 0, 0), Addr4(42, 0, 0, 0),
    Addr6(1), Addr6(2), Addr6(3),
    [addr |-> <<32, 1, 7, 192, 0, 0, 0, 0, 0, 0, 0, 0, 0, 0, 0, 0>>, is4 |-> FALSE] }

Shr(x, k) == x \div (2 ^ k)

\* the first n bits of the octet sequences a and b agree
SameBits(a, b, n) ==
  /\ \A i \in 1..(n \div 8) : a[i] = b[i]
  /\ (n % 8 # 0) => Shr(a[(n \div 8) + 1], 8 - (n % 8)) = Shr(b[(n \div 8) + 1], 8 - (n % 8))

\* netip.Prefix.Contains
PrefixContains(p, ip) == p.is4 = ip.is4 /\ SameBits(p.addr, ip.addr, p.bits)

\* netip.Prefix.Overlaps
PrefixOverlaps(p, q) ==
  /\ p.is4 = q.is4
  /\ SameBits(p.addr, q.addr, IF p.bits < q.bits THEN p.bits ELSE q.bits)

\* ------------------------------------------------------------------------
\* Base index mapping (ART), base_index.go
\* ------------------------------------------------------------------------

\* lastIdx, lastBits of a prefix length
lastOctetIdxAndBits(bits) == <<Shr(bits, 3), bits % 8>>

\* prefixToBaseIndex that does not shift the octet
prefixToBaseIndex_NoShift(octet, prefixLen) == octet + (2 ^ prefixLen)

prefixToBaseIndex(octet, prefixLen) == Shr(octet, strideLen - prefixLen) + (2 ^ prefixLen)

octetToBaseIndex(octet) == octet + firstHostIndex

\* rows <<octet, bits, lower, upper, rank>>, row idx+1 is for base index idx
baseIdxLookupTbl ==
  <<
   <<0, -1, 0, 0, 0>>, <<0, 0, 256, 511, 1>>, <<0, 1, 256, 383, 2>>, <<128, 1, 384, 511, 257>>,
   <<0, 2, 256, 319, 3>>, <<64, 2, 320, 383, 130>>, <<128, 2, 384, 447, 258>>, <<192, 2, 448, 511, 385>>,
   <<0, 3, 256, 287, 4>>, <<32, 3, 288, 319, 67>>, <<64, 3, 320, 351, 131>>, <<96, 3, 352, 383, 194>>,
   <<128, 3, 384, 415, 259>>, <<160, 3, 416, 447, 322>>, <<192, 3, 448, 479, 386>>, <<224, 3, 480, 511, 449>>,
   <<0, 4, 256, 271, 5>>, <<16, 4, 272, 287, 36>>, <<32, 4, 288, 303, 68>>, <<48, 4, 304, 319, 99>>,
   <<64, 4, 320, 335, 132>>, <<80, 4, 336, 351, 163>>, <<96, 4, 352, 367, 195>>, <<112, 4, 368, 383, 226>>,
   <<128, 4, 384, 399, 260>>, <<144, 4, 400, 415, 291>>, <<160, 4, 416, 431, 323>>, <<176, 4, 432, 447, 354>>,
   <<192, 4, 448, 463, 387>>, <<208, 4, 464, 479, 418>>, <<224, 4, 480, 495, 450>>, <<240, 4, 496, 511, 481>>,
   <<0, 5, 256, 263, 6>>, <<8, 5, 264, 271, 21>>, <<16, 5, 272, 279, 37>>, <<24, 5, 280, 287, 52>>,
   <<32, 5, 288, 295, 69>>, <<40, 5, 296, 303, 84>>, <<48, 5, 304, 311, 100>>, <<56, 5, 312, 319, 115>>,
   <<64, 5, 320, 327, 133>>, <<72, 5, 328, 335, 148>>, <<80, 5, 336, 343, 164>>, <<88, 5, 344, 351, 179>>,
   <<96, 5, 352, 359, 196>>, <<104, 5, 360, 367, 211>>, <<112, 5, 368, 375, 227>>, <<120, 5, 376, 383, 242>>,
   <<128, 5, 384, 391, 261>>, <<136, 5, 392, 399, 276>>, <<144, 5, 400, 407, 292>>, <<152, 5, 408, 415, 307>>,
   <<160, 5, 416, 423, 324>>, <<168, 5, 424, 431, 339>>, <<176, 5, 432, 439, 355>>, <<184, 5, 440, 447, 370>>,
   <<192, 5, 448, 455, 388>>, <<200, 5, 456, 463, 403>>, <<208, 5, 464, 471, 419>>, <<216, 5, 472, 479, 434>>,
   <<224, 5, 480, 487, 451>>, <<232, 5, 488, 495, 466>>, <<240, 5, 496, 503, 482>>, <<248, 5, 504, 511, 497>>,
   <<0, 6, 256, 259, 7>>, <<4, 6, 260, 263, 14>>, <<8, 6, 264, 267, 22>>, <<12, 6, 268, 271, 29>>,
   <<16, 6, 272, 275, 38>>, <<20, 6, 276, 279, 45>>, <<24, 6, 280, 283, 53>>, <<28, 6, 284, 287, 60>>,
   <<32, 6, 288, 291, 70>>, <<36, 6, 292, 295, 77>>, <<40, 6, 296, 299, 85>>, <<44, 6, 300, 303, 92>>,
   <<48, 6, 304, 307, 101>>, <<52, 6, 308, 311, 108>>, <<56, 6, 312, 315, 116>>, <<60, 6, 316, 319, 123>>,
   <<64, 6, 320, 323, 134>>, <<68, 6, 324, 327, 141>>, <<72, 6, 328, 331, 149>>, <<76, 6, 332, 335, 156>>,
   <<80, 6, 336, 339, 165>>, <<84, 6, 340, 343, 172>>, <<88, 6, 344, 347, 180>>, <<92, 6, 348, 351, 187>>,
   <<96, 6, 352, 355, 197>>, <<100, 6, 356, 359, 204>>, <<104, 6, 360, 363, 212>>, <<108, 6, 364, 367, 219>>,
   <<112, 6, 368, 371, 228>>, <<116, 6, 372, 375, 235>>, <<120, 6, 376, 379, 243>>, <<124, 6, 380, 383, 250>>,
   <<128, 6, 384, 387, 262>>, <<132, 6, 388, 391, 269>>, <<136, 6, 392, 395, 277>>, <<140, 6, 396, 399, 284>>,
   <<144, 6, 400, 403, 293>>, <<148, 6, 404, 407, 300>>, <<152, 6, 408, 411, 308>>, <<156, 6, 412, 415, 315>>,
   <<160, 6, 416, 419, 325>>, <<164, 6, 420, 423, 332>>, <<168, 6, 424, 427, 340>>, <<172, 6, 428, 431, 347>>,
   <<176, 6, 432, 435, 356>>, <<180, 6, 436, 439, 363>>, <<184, 6, 440, 443, 371>>, <<188, 6, 444, 447, 378>>,
   <<192, 6, 448, 451, 389>>, <<196, 6, 452, 455, 396>>, <<200, 6, 456, 459, 404>>, <<204, 6, 460, 463, 411>>,
   <<208, 6, 464, 467, 420>>, <<212, 6, 468, 471, 427>>, <<216, 6, 472, 475, 435>>, <<220, 6, 476, 479, 442>>,
   <<224, 6, 480, 483, 452>>, <<228, 6, 484, 487, 459>>, <<232, 6, 488, 491, 467>>, <<236, 6, 492, 495, 474>>,
   <<240, 6, 496, 499, 483>>, <<244, 6, 500, 503, 490>>, <<248, 6, 504, 507, 498>>, <<252, 6, 508, 511, 505>>,
   <<0, 7, 256, 257, 8>>, <<2, 7, 258, 259, 11>>, <<4, 7, 260, 261, 15>>, <<6, 7, 262, 263, 18>>,
   <<8, 7, 264, 265, 23>>, <<10, 7, 266, 267, 26>>, <<12, 7, 268, 269, 30>>, <<14, 7, 270, 271, 33>>,
   <<16, 7, 272, 273, 39>>, <<18, 7, 274, 275, 42>>, <<20, 7, 276, 277, 46>>, <<22, 7, 278, 279, 49>>,
   <<24, 7, 280, 281, 54>>, <<26, 7, 282, 283, 57>>, <<28, 7, 284, 285, 61>>, <<30, 7, 286, 287, 64>>,
   <<32, 7, 288, 289, 71>>, <<34, 7, 290, 291, 74>>, <<36, 7, 292, 293, 78>>, <<38, 7, 294, 295, 81>>,
   <<40, 7, 296, 297, 86>>, <<42, 7, 298, 299, 89>>, <<44, 7, 300, 301, 93>>, <<46, 7, 302, 303, 96>>,
   <<48, 7, 304, 305, 102>>, <<50, 7, 306, 307, 105>>, <<52, 7, 308, 309, 109>>, <<54, 7, 310, 311, 112>>,
   <<56, 7, 312, 313, 117>>, <<58, 7, 314, 315, 120>>, <<60, 7, 316, 317, 124>>, <<62, 7, 318, 319, 127>>,
   <<64, 7, 320, 321, 135>>, <<66, 7, 322, 323, 138>>, <<68, 7, 324, 325, 142>>, <<70, 7, 326, 327, 145>>,
   <<72, 7, 328, 329, 150>>, <<74, 7, 330, 331, 153>>, <<76, 7, 332, 333, 157>>, <<78, 7, 334, 335, 160>>,
   <<80, 7, 336, 337, 166>>, <<82, 7, 338, 339, 169>>, <<84, 7, 340, 341, 173>>, <<86, 7, 342, 343, 176>>,
   <<88, 7, 344, 345, 181>>, <<90, 7, 346, 347, 184>>, <<92, 7, 348, 349, 188>>, <<94, 7, 350, 351, 191>>,
   <<96, 7, 352, 353, 198>>, <<98, 7, 354, 355, 201>>, <<100, 7, 356, 357, 205>>, <<102, 7, 358, 359, 208>>,
   <<104, 7, 360, 361, 213>>, <<106, 7, 362, 363, 216>>, <<108, 7, 364, 365, 220>>, <<110, 7, 366, 367, 223>>,
   <<112, 7, 368, 369, 229>>, <<114, 7, 370, 371, 232>>, <<116, 7, 372, 373, 236>>, <<118, 7, 374, 375, 239>>,
   <<120, 7, 376, 377, 244>>, <<122, 7, 378, 379, 247>>, <<124, 7, 380, 381, 251>>, <<126, 7, 382, 383, 254>>,
   <<128, 7, 384, 385, 263>>, <<130, 7, 386, 387, 266>>, <<132, 7, 388, 389, 270>>, <<134, 7, 390, 391, 273>>,
   <<136, 7, 392, 393, 278>>, <<138, 7, 394, 395, 281>>, <<140, 7, 396, 397, 285>>, <<142, 7, 398, 399, 288>>,
   <<144, 7, 400, 401, 294>>, <<146, 7, 402, 403, 297>>, <<148, 7, 404, 405, 301>>, <<150, 7, 406, 407, 304>>,
   <<152, 7, 408, 409, 309>>, <<154, 7, 410, 411, 312>>, <<156, 7, 412, 413, 316>>, <<158, 7, 414, 415, 319>>,
   <<160, 7, 416, 417, 326>>, <<162, 7, 418, 419, 329>>, <<164, 7, 420, 421, 333>>, <<166, 7, 422, 423, 336>>,
   <<168, 7, 424, 425, 341>>, <<170, 7, 426, 427, 344>>, <<172, 7, 428, 429, 348>>, <<174, 7, 430, 431, 351>>,
   <<176, 7, 432, 433, 357>>, <<178, 7, 434, 435, 360>>, <<180, 7, 436, 437, 364>>, <<182, 7, 438, 439, 367>>,
   <<184, 7, 440, 441, 372>>, <<186, 7, 442, 443, 375>>, <<188, 7, 444, 445, 379>>, <<190, 7, 446, 447, 382>>,
   <<192, 7, 448, 449, 390>>, <<194, 7, 450, 451, 393>>, <<196, 7, 452, 453, 397>>, <<198, 7, 454, 455, 400>>,
   <<200, 7, 456, 457, 405>>, <<202, 7, 458, 459, 408>>, <<204, 7, 460, 461, 412>>, <<206, 7, 462, 463, 415>>,
   <<208, 7, 464, 465, 421>>, <<210, 7, 466, 467, 424>>, <<212, 7, 468, 469, 428>>, <<214, 7, 470, 471, 431>>,
   <<216, 7, 472, 473, 436>>, <<218, 7, 474, 475, 439>>, <<220, 7, 476, 477, 443>>, <<222, 7, 478, 479, 446>>,
   <<224, 7, 480, 481, 453>>, <<226, 7, 482, 483, 456>>, <<228, 7, 484, 485, 460>>, <<230, 7, 486, 487, 463>>,
   <<232, 7, 488, 489, 468>>, <<234, 7, 490, 491, 471>>, <<236, 7, 492, 493, 475>>, <<238, 7, 494, 495, 478>>,
   <<240, 7, 496, 497, 484>>, <<242, 7, 498, 499, 487>>, <<244, 7, 500, 501, 491>>, <<246, 7, 502, 503, 494>>,
   <<248, 7, 504, 505, 499>>, <<250, 7, 506, 507, 502>>, <<252, 7, 508, 509, 506>>, <<254, 7, 510, 511, 509>>,
   <<0, 8, 256, 256, 9>>, <<1, 8, 257, 257, 10>>, <<2, 8, 258, 258, 12>>, <<3, 8, 259, 259, 13>>,
   <<4, 8, 260, 260, 16>>, <<5, 8, 261, 261, 17>>, <<6, 8, 262, 262, 19>>, <<7, 8, 263, 263, 20>>,
   <<8, 8, 264, 264, 24>>, <<9, 8, 265, 265, 25>>, <<10, 8, 266, 266, 27>>, <<11, 8, 267, 267, 28>>,
   <<12, 8, 268, 268, 31>>, <<13, 8, 269, 269, 32>>, <<14, 8, 270, 270, 34>>, <<15, 8, 271, 271, 35>>,
   <<16, 8, 272, 272, 40>>, <<17, 8, 273, 273, 41>>, <<18, 8, 274, 274, 43>>, <<19, 8, 275, 275, 44>>,
   <<20, 8, 276, 276, 47>>, <<21, 8, 277, 277, 48>>, <<22, 8, 278, 278, 50>>, <<23, 8, 279, 279, 51>>,
   <<24, 8, 280, 280, 55>>, <<25, 8, 281, 281, 56>>, <<26, 8, 282, 282, 58>>, <<27, 8, 283, 283, 59>>,
   <<28, 8, 284, 284, 62>>, <<29, 8, 285, 285, 63>>, <<30, 8, 286, 286, 65>>, <<31, 8, 287, 287, 66>>,
   <<32, 8, 288, 288, 72>>, <<33, 8, 289, 289, 73>>, <<34, 8, 290, 290, 75>>, <<35, 8, 291, 291, 76>>,
   <<36, 8, 292, 292, 79>>, <<37, 8, 293, 293, 80>>, <<38, 8, 294, 294, 82>>, <<39, 8, 295, 295, 83>>,
   <<40, 8, 296, 296, 87>>, <<41, 8, 297, 297, 88>>, <<42, 8, 298, 298, 90>>, <<43, 8, 299, 299, 91>>,
   <<44, 8, 300, 300, 94>>, <<45, 8, 301, 301, 95>>, <<46, 8, 302, 302, 97>>, <<47, 8, 303, 303, 98>>,
   <<48, 8, 304, 304, 103>>, <<49, 8, 305, 305, 104>>, <<50, 8, 306, 306, 106>>, <<51, 8, 307, 307, 107>>,
   <<52, 8, 308, 308, 110>>, <<53, 8, 309, 309, 111>>, <<54, 8, 310, 310, 113>>, <<55, 8, 311, 311, 114>>,
   <<56, 8, 312, 312, 118>>, <<57, 8, 313, 313, 119>>, <<58, 8, 314, 314, 121>>, <<59, 8, 315, 315, 122>>,
   <<60, 8, 316, 316, 125>>, <<61, 8, 317, 317, 126>>, <<62, 8, 318, 318, 128>>, <<63, 8, 319, 319, 129>>,
   <<64, 8, 320, 320, 136>>, <<65, 8, 321, 321, 137>>, <<66, 8, 322, 322, 139>>, <<67, 8, 323, 323, 140>>,
   <<68, 8, 324, 324, 143>>, <<69, 8, 325, 325, 144>>, <<70, 8, 326, 326, 146>>, <<71, 8, 327, 327, 147>>,
   <<72, 8, 328, 328, 151>>, <<73, 8, 329, 329, 152>>, <<74, 8, 330, 330, 154>>, <<75, 8, 331, 331, 155>>,
   <<76, 8, 332, 332, 158>>, <<77, 8, 333, 333, 159>>, <<78, 8, 334, 334, 161>>, <<79, 8, 335, 335, 162>>,
   <<80, 8, 336, 336, 167>>, <<81, 8, 337, 337, 168>>, <<82, 8, 338, 338, 170>>, <<83, 8, 339, 339, 171>>,
   <<84, 8, 340, 340, 174>>, <<85, 8, 341, 341, 175>>, <<86, 8, 342, 342, 177>>, <<87, 8, 343, 343, 178>>,
   <<88, 8, 344, 344, 182>>, <<89, 8, 345, 345, 183>>, <<90, 8, 346, 346, 185>>, <<91, 8, 347, 347, 186>>,
   <<92, 8, 348, 348, 189>>, <<93, 8, 349, 349, 190>>, <<94, 8, 350, 350, 192>>, <<95, 8, 351, 351, 193>>,
   <<96, 8, 352, 352, 199>>, <<97, 8, 353, 353, 200>>, <<98, 8, 354, 354, 202>>, <<99, 8, 355, 355, 203>>,
   <<100, 8, 356, 356, 206>>, <<101, 8, 357, 357, 207>>, <<102, 8, 358, 358, 209>>, <<103, 8, 359, 359, 210>>,
   <<104, 8, 360, 360, 214>>, <<105, 8, 361, 361, 215>>, <<106, 8, 362, 362, 217>>, <<107, 8, 363, 363, 218>>,
   <<108, 8, 364, 364, 221>>, <<109, 8, 365, 365, 222>>, <<110, 8, 366, 366, 224>>, <<111, 8, 367, 367, 225>>,
   <<112, 8, 368, 368, 230>>, <<113, 8, 369, 369, 231>>, <<114, 8, 370, 370, 233>>, <<115, 8, 371, 371, 234>>,
   <<116, 8, 372, 372, 237>>, <<117, 8, 373, 373, 238>>, <<118, 8, 374, 374, 240>>, <<119, 8, 375, 375, 241>>,
   <<120, 8, 376, 376, 245>>, <<121, 8, 377, 377, 246>>, <<122, 8, 378, 378, 248>>, <<123, 8, 379, 379, 249>>,
   <<124, 8, 380, 380, 252>>, <<125, 8, 381, 381, 253>>, <<126, 8, 382, 382, 255>>, <<127, 8, 383, 383, 256>>,
   <<128, 8, 384, 384, 264>>, <<129, 8, 385, 385, 265>>, <<130, 8, 386, 386, 267>>, <<131, 8, 387, 387, 268>>,
   <<132, 8, 388, 388, 271>>, <<133, 8, 389, 389, 272>>, <<134, 8, 390, 390, 274>>, <<135, 8, 391, 391, 275>>,
   <<136, 8, 392, 392, 279>>, <<137, 8, 393, 393, 280>>, <<138, 8, 394, 394, 282>>, <<139, 8, 395, 395, 283>>,
   <<140, 8, 396, 396, 286>>, <<141, 8, 397, 397, 287>>, <<142, 8, 398, 398, 289>>, <<143, 8, 399, 399, 290>>,
   <<144, 8, 400, 400, 295>>, <<145, 8, 401, 401, 296>>, <<146, 8, 402, 402, 298>>, <<147, 8, 403, 403, 299>>,
   <<148, 8, 404, 404, 302>>, <<149, 8, 405, 405, 303>>, <<150, 8, 406, 406, 305>>, <<151, 8, 407, 407, 306>>,
   <<152, 8, 408, 408, 310>>, <<153, 8, 409, 409, 311>>, <<154, 8, 410, 410, 313>>, <<155, 8, 411, 411, 314>>,
   <<156, 8, 412, 412, 317>>, <<157, 8, 413, 413, 318>>, <<158, 8, 414, 414, 320>>, <<159, 8, 415, 415, 321>>,
   <<160, 8, 416, 416, 327>>, <<161, 8, 417, 417, 328>>, <<162, 8, 418, 418, 330>>, <<163, 8, 419, 419, 331>>,
   <<164, 8, 420, 420, 334>>, <<165, 8, 421, 421, 335>>, <<166, 8, 422, 422, 337>>, <<167, 8, 423, 423, 338>>,
   <<168, 8, 424, 424, 342>>, <<169, 8, 425, 425, 343>>, <<170, 8, 426, 426, 345>>, <<171, 8, 427, 427, 346>>,
   <<172, 8, 428, 428, 349>>, <<173, 8, 429, 429, 350>>, <<174, 8, 430, 430, 352>>, <<175, 8, 431, 431, 353>>,
   <<176, 8, 432, 432, 358>>, <<177, 8, 433, 433, 359>>, <<178, 8, 434, 434, 361>>, <<179, 8, 435, 435, 362>>,
   <<180, 8, 436, 436, 365>>, <<181, 8, 437, 437, 366>>, <<182, 8, 438, 438, 368>>, <<183, 8, 439, 439, 369>>,
   <<184, 8, 440, 440, 373>>, <<185, 8, 441, 441, 374>>, <<186, 8, 442, 442, 376>>, <<187, 8, 443, 443, 377>>,
   <<188, 8, 444, 444, 380>>, <<189, 8, 445, 445, 381>>, <<190, 8, 446, 446, 383>>, <<191, 8, 447, 447, 384>>,
   <<192, 8, 448, 448, 391>>, <<193, 8, 449, 449, 392>>, <<194, 8, 450, 450, 394>>, <<195, 8, 451, 451, 395>>,
   <<196, 8, 452, 452, 398>>, <<197, 8, 453, 453, 399>>, <<198, 8, 454, 454, 401>>, <<199, 8, 455, 455, 402>>,
   <<200, 8, 456, 456, 406>>, <<201, 8, 457, 457, 407>>, <<202, 8, 458, 458, 409>>, <<203, 8, 459, 459, 410>>,
   <<204, 8, 460, 460, 413>>, <<205, 8, 461, 461, 414>>, <<206, 8, 462, 462, 416>>, <<207, 8, 463, 463, 417>>,
   <<208, 8, 464, 464, 422>>, <<209, 8, 465, 465, 423>>, <<210, 8, 466, 466, 425>>, <<211, 8, 467, 467, 426>>,
   <<212, 8, 468, 468, 429>>, <<213, 8, 469, 469, 430>>, <<214, 8, 470, 470, 432>>, <<215, 8, 471, 471, 433>>,
   <<216, 8, 472, 472, 437>>, <<217, 8, 473, 473, 438>>, <<218, 8, 474, 474, 440>>, <<219, 8, 475, 475, 441>>,
   <<220, 8, 476, 476, 444>>, <<221, 8, 477, 477, 445>>, <<222, 8, 478, 478, 447>>, <<223, 8, 479, 479, 448>>,
   <<224, 8, 480, 480, 454>>, <<225, 8, 481, 481, 455>>, <<226, 8, 482, 482, 457>>, <<227, 8, 483, 483, 458>>,
   <<228, 8, 484, 484, 461>>, <<229, 8, 485, 485, 462>>, <<230, 8, 486, 486, 464>>, <<231, 8, 487, 487, 465>>,
   <<232, 8, 488, 488, 469>>, <<233, 8, 489, 489, 470>>, <<234, 8, 490, 490, 472>>, <<235, 8, 491, 491, 473>>,
   <<236, 8, 492, 492, 476>>, <<237, 8, 493, 493, 477>>, <<238, 8, 494, 494, 479>>, <<239, 8, 495, 495, 480>>,
   <<240, 8, 496, 496, 485>>, <<241, 8, 497, 497, 486>>, <<242, 8, 498, 498, 488>>, <<243, 8, 499, 499, 489>>,
   <<244, 8, 500, 500, 492>>, <<245, 8, 501, 501, 493>>, <<246, 8, 502, 502, 495>>, <<247, 8, 503, 503, 496>>,
   <<248, 8, 504, 504, 500>>, <<249, 8, 505, 505, 501>>, <<250, 8, 506, 506, 503>>, <<251, 8, 507, 507, 504>>,
   <<252, 8, 508, 508, 507>>, <<253, 8, 509, 509, 508>>, <<254, 8, 510, 510, 510>>, <<255, 8, 511, 511, 511>>
  >>

\* <<octet, pfxLen>> of a base index, by table
baseIndexToPrefix(baseIdx) ==
  <<baseIdxLookupTbl[baseIdx + 1][1], baseIdxLookupTbl[baseIdx + 1][2]>>

\* <<lower, upper>> host routes of a base index, by table
hostRoutesByIndex(idx) ==
  <<baseIdxLookupTbl[idx + 1][3], baseIdxLookupTbl[idx + 1][4]>>

prefixSortRankByIndex(baseIdx) == baseIdxLookupTbl[baseIdx + 1][5]

\* the CBT path from idx up to 1, as a bitset
BackTrackingBitset(idx) == { Shr(idx, k) : k \in 0..8 } \ {0}

\* entry idx+1 holds the prefix indices (below 256) that base index idx covers
pfxRoutesLookupTbl ==
  <<
   {},  \* idx 0
   (1..255),  \* idx 1
   {2} \cup (4..5) \cup (8..11) \cup (16..23) \cup (32..47) \cup (64..95) \cup (128..191),  \* idx 2
   {3} \cup (6..7) \cup (12..15) \cup (24..31) \cup (48..63) \cup (96..127) \cup (192..255),  \* idx 3
   {4} \cup (8..9) \cup (16..19) \cup (32..39) \cup (64..79) \cup (128..159),  \* idx 4
   {5} \cup (10..11) \cup (20..23) \cup (40..47) \cup (80..95) \cup (160..191),  \* idx 5
   {6} \cup (12..13) \cup (24..27) \cup (48..55) \cup (96..111) \cup (192..223),  \* idx 6
   {7} \cup (14..15) \cup (28..31) \cup (56..63) \cup (112..127) \cup (224..255),  \* idx 7
   {8} \cup (16..17) \cup (32..35) \cup (64..71) \cup (128..143),  \* idx 8
   {9} \cup (18..19) \cup (36..39) \cup (72..79) \cup (144..159),  \* idx 9
   {10} \cup (20..21) \cup (40..43) \cup (80..87) \cup (160..175),  \* idx 10
   {11} \cup (22..23) \cup (44..47) \cup (88..95) \cup (176..191),  \* idx 11
   {12} \cup (24..25) \cup (48..51) \cup (96..103) \cup (192..207),  \* idx 12
   {13} \cup (26..27) \cup (52..55) \cup (104..111) \cup (208..223),  \* idx 13
   {14} \cup (28..29) \cup (56..59) \cup (112..119) \cup (224..239),  \* idx 14
   {15} \cup (30..31) \cup (60..63) \cup (120..127) \cup (240..255),  \* idx 15
   {16} \cup (32..33) \cup (64..67) \cup (128..135),  \* idx 16
   {17} \cup (34..35) \cup (68..71) \cup (136..143),  \* idx 17
   {18} \cup (36..37) \cup (72..75) \cup (144..151),  \* idx 18
   {19} \cup (38..39) \cup (76..79) \cup (152..159),  \* idx 19
   {20} \cup (40..41) \cup (80..83) \cup (160..167),  \* idx 20
   {21} \cup (42..43) \cup (84..87) \cup (168..175),  \* idx 21
   {22} \cup (44..45) \cup (88..91) \cup (176..183),  \* idx 22
   {23} \cup (46..47) \cup (92..95) \cup (184..191),  \* idx 23
   {24} \cup (48..49) \cup (96..99) \cup (192..199),  \* idx 24
   {25} \cup (50..51) \cup (100..103) \cup (200..207),  \* idx 25
   {26} \cup (52..53) \cup (104..107) \cup (208..215),  \* idx 26
   {27} \cup (54..55) \cup (108..111) \cup (216..223),  \* idx 27
   {28} \cup (56..57) \cup (112..115) \cup (224..231),  \* idx 28
   {29} \cup (58..59) \cup (116..119) \cup (232..239),  \* idx 29
   {30} \cup (60..61) \cup (120..123) \cup (240..247),  \* idx 30
   {31} \cup (62..63) \cup (124..127) \cup (248..255),  \* idx 31
   {32} \cup (64..65) \cup (128..131),  \* idx 32
   {33} \cup (66..67) \cup (132..135),  \* idx 33
   {34} \cup (68..69) \cup (136..139),  \* idx 34
   {35} \cup (70..71) \cup (140..143),  \* idx 35
   {36} \cup (72..73) \cup (144..147),  \* idx 36
   {37} \cup (74..75) \cup (148..151),  \* idx 37
   {38} \cup (76..77) \cup (152..155),  \* idx 38
   {39} \cup (78..79) \cup (156..159),  \* idx 39
   {40} \cup (80..81) \cup (160..163),  \* idx 40
   {41} \cup (82..83) \cup (164..167),  \* idx 41
   {42} \cup (84..85) \cup (168..171),  \* idx 42
   {43} \cup (86..87) \cup (172..175),  \* idx 43
   {44} \cup (88..89) \cup (176..179),  \* idx 44
   {45} \cup (90..91) \cup (180..183),  \* idx 45
   {46} \cup (92..93) \cup (184..187),  \* idx 46
   {47} \cup (94..95) \cup (188..191),  \* idx 47
   {48} \cup (96..97) \cup (192..195),  \* idx 48
   {49} \cup (98..99) \cup (196..199),  \* idx 49
   {50} \cup (100..101) \cup (200..203),  \* idx 50
   {51} \cup (102..103) \cup (204..207),  \* idx 51
   {52} \cup (104..105) \cup (208..211),  \* idx 52
   {53} \cup (106..107) \cup (212..215),  \* idx 53
   {54} \cup (108..109) \cup (216..219),  \* idx 54
   {55} \cup (110..111) \cup (220..223),  \* idx 55
   {56} \cup (112..113) \cup (224..227),  \* idx 56
   {57} \cup (114..115) \cup (228..231),  \* idx 57
   {58} \cup (116..117) \cup (232..235),  \* idx 58
   {59} \cup (118..119) \cup (236..239),  \* idx 59
   {60} \cup (120..121) \cup (240..243),  \* idx 60
   {61} \cup (122..123) \cup (244..247),  \* idx 61
   {62} \cup (124..125) \cup (248..251),  \* idx 62
   {63} \cup (126..127) \cup (252..255),  \* idx 63
   {64} \cup (128..129),  \* idx 64
   {65} \cup (130..131),  \* idx 65
   {66} \cup (132..133),  \* idx 66
   {67} \cup (134..135),  \* idx 67
   {68} \cup (136..137),  \* idx 68
   {69} \cup (138..139),  \* idx 69
   {70} \cup (140..141),  \* idx 70
   {71} \cup (142..143),  \* idx 71
   {72} \cup (144..145),  \* idx 72
   {73} \cup (146..147),  \* idx 73
   {74} \cup (148..149),  \* idx 74
   {75} \cup (150..151),  \* idx 75
   {76} \cup (152..153),  \* idx 76
   {77} \cup (154..155),  \* idx 77
   {78} \cup (156..157),  \* idx 78
   {79} \cup (158..159),  \* idx 79
   {80} \cup (160..161),  \* idx 80
   {81} \cup (162..163),  \* idx 81
   {82} \cup (164..165),  \* idx 82
   {83} \cup (166..167),  \* idx 83
   {84} \cup (168..169),  \* idx 84
   {85} \cup (170..171),  \* idx 85
   {86} \cup (172..173),  \* idx 86
   {87} \cup (174..175),  \* idx 87
   {88} \cup (176..177),  \* idx 88
   {89} \cup (178..179),  \* idx 89
   {90} \cup (180..181),  \* idx 90
   {91} \cup (182..183),  \* idx 91
   {92} \cup (184..185),  \* idx 92
   {93} \cup (186..187),  \* idx 93
   {94} \cup (188..189),  \* idx 94
   {95} \cup (190..191),  \* idx 95
   {96} \cup (192..193),  \* idx 96
   {97} \cup (194..195),  \* idx 97
   {98} \cup (196..197),  \* idx 98
   {99} \cup (198..199),  \* idx 99
   {100} \cup (200..201),  \* idx 100
   {101} \cup (202..203),  \* idx 101
   {102} \cup (204..205),  \* idx 102
   {103} \cup (206..207),  \* idx 103
   {104} \cup (208..209),  \* idx 104
   {105} \cup (210..211),  \* idx 105
   {106} \cup (212..213),  \* idx 106
   {107} \cup (214..215),  \* idx 107
   {108} \cup (216..217),  \* idx 108
   {109} \cup (218..219),  \* idx 109
   {110} \cup (220..221),  \* idx 110
   {111} \cup (222..223),  \* idx 111
   {112} \cup (224..225),  \* idx 112
   {113} \cup (226..227),  \* idx 113
   {114} \cup (228..229),  \* idx 114
   {115} \cup (230..231),  \* idx 115
   {116} \cup (232..233),  \* idx 116
   {117} \cup (234..235),  \* idx 117
   {118} \cup (236..237),  \* idx 118
   {119} \cup (238..239),  \* idx 119
   {120} \cup (240..241),  \* idx 120
   {121} \cup (242..243),  \* idx 121
   {122} \cup (244..245),  \* idx 122
   {123} \cup (246..247),  \* idx 123
   {124} \cup (248..249),  \* idx 124
   {125} \cup (250..251),  \* idx 125
   {126} \cup (252..253),  \* idx 126
   {127} \cup (254..255),  \* idx 127
   {128},  \* idx 128
   {129},  \* idx 129
   {130},  \* idx 130
   {131},  \* idx 131
   {132},  \* idx 132
   {133},  \* idx 133
   {134},  \* idx 134
   {135},  \* idx 135
   {136},  \* idx 136
   {137},  \* idx 137
   {138},  \* idx 138
   {139},  \* idx 139
   {140},  \* idx 140
   {141},  \* idx 141
   {142},  \* idx 142
   {143},  \* idx 143
   {144},  \* idx 144
   {145},  \* idx 145
   {146},  \* idx 146
   {147},  \* idx 147
   {148},  \* idx 148
   {149},  \* idx 149
   {150},  \* idx 150
   {151},  \* idx 151
   {152},  \* idx 152
   {153},  \* idx 153
   {154},  \* idx 154
   {155},  \* idx 155
   {156},  \* idx 156
   {157},  \* idx 157
   {158},  \* idx 158
   {159},  \* idx 159
   {160},  \* idx 160
   {161},  \* idx 161
   {162},  \* idx 162
   {163},  \* idx 163
   {164},  \* idx 164
   {165},  \* idx 165
   {166},  \* idx 166
   {167},  \* idx 167
   {168},  \* idx 168
   {169},  \* idx 169
   {170},  \* idx 170
   {171},  \* idx 171
   {172},  \* idx 172
   {173},  \* idx 173
   {174},  \* idx 174
   {175},  \* idx 175
   {176},  \* idx 176
   {177},  \* idx 177
   {178},  \* idx 178
   {179},  \* idx 179
   {180},  \* idx 180
   {181},  \* idx 181
   {182},  \* idx 182
   {183},  \* idx 183
   {184},  \* idx 184
   {185},  \* idx 185
   {186},  \* idx 186
   {187},  \* idx 187
   {188},  \* idx 188
   {189},  \* idx 189
   {190},  \* idx 190
   {191},  \* idx 191
   {192},  \* idx 192
   {193},  \* idx 193
   {194},  \* idx 194
   {195},  \* idx 195
   {196},  \* idx 196
   {197},  \* idx 197
   {198},  \* idx 198
   {199},  \* idx 199
   {200},  \* idx 200
   {201},  \* idx 201
   {202},  \* idx 202
   {203},  \* idx 203
   {204},  \* idx 204
   {205},  \* idx 205
   {206},  \* idx 206
   {207},  \* idx 207
   {208},  \* idx 208
   {209},  \* idx 209
   {210},  \* idx 210
   {211},  \* idx 211
   {212},  \* idx 212
   {213},  \* idx 213
   {214},  \* idx 214
   {215},  \* idx 215
   {216},  \* idx 216
   {217},  \* idx 217
   {218},  \* idx 218
   {219},  \* idx 219
   {220},  \* idx 220
   {221},  \* idx 221
   {222},  \* idx 222
   {223},  \* idx 223
   {224},  \* idx 224
   {225},  \* idx 225
   {226},  \* idx 226
   {227},  \* idx 227
   {228},  \* idx 228
   {229},  \* idx 229
   {230},  \* idx 230
   {231},  \* idx 231
   {232},  \* idx 232
   {233},  \* idx 233
   {234},  \* idx 234
   {235},  \* idx 235
   {236},  \* idx 236
   {237},  \* idx 237
   {238},  \* idx 238
   {239},  \* idx 239
   {240},  \* idx 240
   {241},  \* idx 241
   {242},  \* idx 242
   {243},  \* idx 243
   {244},  \* idx 244
   {245},  \* idx 245
   {246},  \* idx 246
   {247},  \* idx 247
   {248},  \* idx 248
   {249},  \* idx 249
   {250},  \* idx 250
   {251},  \* idx 251
   {252},  \* idx 252
   {253},  \* idx 253
   {254},  \* idx 254
   {255}  \* idx 255
  >>

\* uint8(idx) as in the Go code
IdxToPrefixRoutes(idx) == pfxRoutesLookupTbl[(idx % 256) + 1]

\* the child octets (host routes minus 256) that base index idx covers
IdxToHostRoutes(idx) ==
  LET i == idx % 256
      r == hostRoutesByIndex(i)
  IN  IF i = 0 THEN {} ELSE (r[1] - firstHostIndex)..(r[2] - firstHostIndex)

\* ------------------------------------------------------------------------
\* BitSet256 and the sparse array, internal/sparse/array.go
\* A bitset is the set of its set bits; Items is the dense value slice.
\* ------------------------------------------------------------------------

SetMin(S) == CHOOSE x \in S : \A y \in S : x <= y

SetMax(S) == CHOOSE x \in S : \A y \in S : x >= y

RECURSIVE SortedSeq(_)
SortedSeq(S) == IF S = {} THEN <<>> ELSE <<SetMin(S)>> \o SortedSeq(S \ {SetMin(S)})

EmptyArray == [BitSet |-> {}, Items |-> <<>>]

Test(s, i) == i \in s.BitSet

\* popcount of [0, i] minus one
Rank0(s, i) == Cardinality({ j \in s.BitSet : j <= i }) - 1

ArrLen(s) == Len(s.Items)

\* a fresh array with its own items slice
Copy(s) == [BitSet |-> s.BitSet, Items |-> SubSeq(s.Items, 1, Len(s.Items))]

\* i is the 0-based slice position
\* insertItem that appends the item, whatever the position
insertItem_Appends(items, item, i) == Append(items, item)

insertItem(items, item, i) ==
  SubSeq(items, 1, i) \o <<item>> \o SubSeq(items, i + 1, Len(items))

deleteItem(items, i) == SubSeq(items, 1, i) \o SubSeq(items, i + 2, Len(items))

\* InsertAt that leaves the item of a slot that is already set as it was
InsertAt_KeepsOld(s, i, val) ==
  IF ArrLen(s) # 0 /\ Test(s, i)
  THEN [arr |-> s, exists |-> TRUE]
  ELSE LET set == [s EXCEPT !.BitSet = @ \cup {i}]
       IN  [arr |-> [set EXCEPT !.Items = insertItem(@, val, Rank0(set, i))],
            exists |-> FALSE]

InsertAt(s, i, val) ==
  IF ArrLen(s) # 0 /\ Test(s, i)
  THEN [arr |-> [s EXCEPT !.Items[Rank0(s, i) + 1] = val], exists |-> TRUE]
  ELSE LET set == [s EXCEPT !.BitSet = @ \cup {i}]
       IN  [arr |-> [set EXCEPT !.Items = insertItem(@, val, Rank0(set, i))],
            exists |-> FALSE]

\* the callbacks UpdateAt is called with: one that stores 1, and one that
\* counts, from 1 and within Values
UpdateCallbacks == {"one", "next"}

\* cb(oldVal, wasPresent)
Callback(cb, oldVal, wasPresent) ==
  IF cb = "next" /\ wasPresent THEN (oldVal % 2) + 1 ELSE 1

\* UpdateAt: [arr, newVal, wasPresent]
UpdateAt(s, i, cb) ==
  LET wasPresent == Test(s, i)
      oldVal == IF wasPresent THEN s.Items[Rank0(s, i) + 1] ELSE Zero
      newVal == Callback(cb, oldVal, wasPresent)
  IN  IF wasPresent
      THEN [arr |-> [s EXCEPT !.Items[Rank0(s, i) + 1] = newVal],
            newVal |-> newVal, wasPresent |-> TRUE]
      ELSE LET set == [s EXCEPT !.BitSet = @ \cup {i}]
           IN  [arr |-> [set EXCEPT !.Items = insertItem(@, newVal, Rank0(set, i))],
                newVal |-> newVal, wasPresent |-> FALSE]

\* DeleteAt that reports a slot that is not set as deleted
DeleteAt_ReportsFound(s, i) ==
  IF ArrLen(s) = 0 \/ ~Test(s, i)
  THEN [arr |-> s, val |-> Zero, exists |-> TRUE]
  ELSE [arr |-> [BitSet |-> s.BitSet \ {i}, Items |-> deleteItem(s.Items, Rank0(s, i))],
        val |-> s.Items[Rank0(s, i) + 1], exists |-> TRUE]

\* DeleteAt that deletes the first item when the slot is not set
DeleteAt_DeletesFirst(s, i) ==
  IF ArrLen(s) = 0
  THEN [arr |-> s, val |-> Zero, exists |-> FALSE]
  ELSE LET at == IF Test(s, i) THEN i ELSE SetMin(s.BitSet)
           idx == Rank0(s, at)
       IN  [arr |-> [BitSet |-> s.BitSet \ {at}, Items |-> deleteItem(s.Items, idx)],
            val |-> s.Items[idx + 1], exists |-> TRUE]

DeleteAt(s, i) ==
  IF ArrLen(s) = 0 \/ ~Test(s, i)
  THEN [arr |-> s, val |-> Zero, exists |-> FALSE]
  ELSE LET idx == Rank0(s, i)
       IN  [arr |-> [BitSet |-> s.BitSet \ {i}, Items |-> deleteItem(s.Items, idx)],
            val |-> s.Items[idx + 1], exists |-> TRUE]

Get(s, i) ==
  IF Test(s, i) THEN [val |-> s.Items[Rank0(s, i) + 1], ok |-> TRUE]
  ELSE [val |-> Zero, ok |-> FALSE]

MustGet(s, i) == s.Items[Rank0(s, i) + 1]

\* the set bits in ascending order
AsSlice(s) == SortedSeq(s.BitSet)

FirstSet(s) == IF s.BitSet = {} THEN <<0, FALSE>> ELSE <<SetMin(s.BitSet), TRUE>>

\* the lowest set bit >= i
NextSet(s, i) ==
  LET above == { j \in s.BitSet : j >= i }
  IN  IF above = {} THEN <<0, FALSE>> ELSE <<SetMin(above), TRUE>>

IntersectsAny(a, b) == a \cap b # {}

\* the highest bit set in both
IntersectionTop(a, b) ==
  IF a \cap b = {} THEN <<0, FALSE>> ELSE <<SetMax(a \cap b), TRUE>>

\* ------------------------------------------------------------------------
\* Heap objects: nodes and leaves, node.go
\* The heap is a sequence of objects, a reference is an index into it.
\* children.Items holds references to nodes and leaves.
\* ------------------------------------------------------------------------

NewNode == [children |-> EmptyArray, kind |-> "node", prefixes |-> EmptyArray]

NewLeaf(pfx, val, fringe) == [fringe |-> fringe, kind |-> "leaf", prefix |-> pfx, value |-> val]

\* new(T): the object is appended, its reference is its index
Alloc(h, obj) == [h |-> Append(h, obj), id |-> Len(h) + 1]

isEmpty(h, n) == ArrLen(h[n].prefixes) = 0 /\ ArrLen(h[n].children) = 0

isFringe(depth, bits) ==
  LET lastIdx == lastOctetIdxAndBits(bits)[1]
      lastBits == lastOctetIdxAndBits(bits)[2]
  IN  depth = lastIdx - 1 /\ lastBits = 0

\* V is a plain value type here, it does not implement Cloner
cloneOrCopy(val) == val

cloneLeaf(l) == NewLeaf(l.prefix, cloneOrCopy(l.value), l.fringe)

\* the result of an insert: the heap after it, the exists flag, and whether
\* the call ended in panic("unreachable")
InsertResult(h, exists, panic) == [h |-> h, exists |-> exists, panic |-> panic]

RECURSIVE insertAtDepth(_, _, _, _, _)
insertAtDepth(h, n, pfx, val, depth) ==
  LET octets == pfx.addr
      lastIdx == lastOctetIdxAndBits(pfx.bits)[1]
      lastBits == lastOctetIdxAndBits(pfx.bits)[2]
  IN  IF ~(depth < Len(octets))
      THEN InsertResult(h, FALSE, TRUE)
      ELSE
        LET octet == octets[depth + 1]
            addr == octet
        IN  IF depth = lastIdx
            THEN LET r == InsertAt(h[n].prefixes, prefixToBaseIndex(octet, lastBits), val)
                 IN  InsertResult([h EXCEPT ![n].prefixes = r.arr], r.exists, FALSE)
            ELSE IF ~Test(h[n].children, addr)
            THEN LET a == Alloc(h, NewLeaf(pfx, val, isFringe(depth, pfx.bits)))
                     r == InsertAt(h[n].children, addr, a.id)
                 IN  InsertResult([a.h EXCEPT ![n].children = r.arr], r.exists, FALSE)
            ELSE
              LET kid == MustGet(h[n].children, addr)
              IN  IF h[kid].kind = "node"
                  THEN insertAtDepth(h, kid, pfx, val, depth + 1)
                  ELSE IF h[kid].prefix = pfx
                  THEN InsertResult([h EXCEPT ![kid].value = val], TRUE, FALSE)
                  ELSE
                    LET a == Alloc(h, NewNode)
                        pushed == insertAtDepth(a.h, a.id, h[kid].prefix, h[kid].value, depth + 1)
                    IN  IF pushed.panic
                        THEN InsertResult(pushed.h, FALSE, TRUE)
                        ELSE insertAtDepth(
                               [pushed.h EXCEPT ![n].children = InsertAt(@, addr, a.id).arr],
                               a.id, pfx, val, depth + 1)

\* cloneFlat that hands out the node itself instead of a copy
cloneFlat_Alias(h, n) == [h |-> h, id |-> n]

\* a flat copy of node n as a new object: own arrays, the same child references
\* (V does not implement Cloner, so the leaves are not cloned)
cloneFlat(h, n) ==
  LET c == Alloc(h, NewNode)
  IN  IF isEmpty(h, n)
      THEN c
      ELSE [h |-> [c.h EXCEPT ![c.id].prefixes = Copy(h[n].prefixes),
                              ![c.id].children = Copy(h[n].children)],
            id |-> c.id]

RECURSIVE insertAtDepthPersist(_, _, _, _, _)
insertAtDepthPersist(h, n, pfx, val, depth) ==
  LET octets == pfx.addr
      lastIdx == lastOctetIdxAndBits(pfx.bits)[1]
      lastBits == lastOctetIdxAndBits(pfx.bits)[2]
  IN  IF ~(depth < Len(octets))
      THEN InsertResult(h, FALSE, TRUE)
      ELSE
        LET octet == octets[depth + 1]
            addr == octet
        IN  IF depth = lastIdx
            THEN LET r == InsertAt(h[n].prefixes, prefixToBaseIndex(octet, lastBits), val)
                 IN  InsertResult([h EXCEPT ![n].prefixes = r.arr], r.exists, FALSE)
            ELSE IF ~Test(h[n].children, addr)
            THEN LET a == Alloc(h, NewLeaf(pfx, val, isFringe(depth, pfx.bits)))
                     r == InsertAt(h[n].children, addr, a.id)
                 IN  InsertResult([a.h EXCEPT ![n].children = r.arr], r.exists, FALSE)
            ELSE
              LET kid == MustGet(h[n].children, addr)
              IN  IF h[kid].kind = "node"
                  THEN LET c == cloneFlat(h, kid)
                       IN  insertAtDepthPersist(
                             [c.h EXCEPT ![n].children = InsertAt(@, addr, c.id).arr],
                             c.id, pfx, val, depth + 1)
                  ELSE
                    \* kid = kid.cloneLeaf(): the clone is a new object that no
                    \* child slot references
                    LET c == Alloc(h, cloneLeaf(h[kid]))
                    IN  IF c.h[c.id].prefix = pfx
                        THEN InsertResult([c.h EXCEPT ![c.id].value = val], TRUE, FALSE)
                        ELSE
                          LET a == Alloc(c.h, NewNode)
                              pushed == insertAtDepth(a.h, a.id, c.h[c.id].prefix,
                                                      c.h[c.id].value, depth + 1)
                          IN  IF pushed.panic
                              THEN InsertResult(pushed.h, FALSE, TRUE)
                              ELSE insertAtDepthPersist(
                                     [pushed.h EXCEPT ![n].children = InsertAt(@, addr, a.id).arr],
                                     a.id, pfx, val, depth + 1)

\* stridePath: the octets, zero padded to maxTreeDepth
StridePath(octets) == [i \in 1..maxTreeDepth |-> IF i <= Len(octets) THEN octets[i] ELSE 0]

\* cidrFromPath that keeps the octets of the path behind the node's depth
cidrFromPath_KeepsPath(path, depth, is4, idx) ==
  LET octet == baseIndexToPrefix(idx)[1]
      pfxLen == baseIndexToPrefix(idx)[2]
      kept == [i \in 1..maxTreeDepth |-> IF i = depth + 1 THEN octet ELSE path[i]]
  IN  [is4 |-> is4,
       addr |-> IF is4 THEN SubSeq(kept, 1, 4) ELSE SubSeq(kept, 1, maxTreeDepth),
       bits |-> depth * 8 + pfxLen]

cidrFromPath(path, depth, is4, idx) ==
  LET octet == baseIndexToPrefix(idx)[1]
      pfxLen == baseIndexToPrefix(idx)[2]
      masked == [i \in 1..maxTreeDepth |->
                   IF i = depth + 1 THEN octet ELSE IF i > depth + 1 THEN 0 ELSE path[i]]
  IN  [is4 |-> is4,
       addr |-> IF is4 THEN SubSeq(masked, 1, 4) ELSE SubSeq(masked, 1, maxTreeDepth),
       bits |-> depth * 8 + pfxLen]

\* purgeAndCompress whose loop deletes a node that holds nothing but one
\* leaf without inserting the leaf into the parent
RECURSIVE purgeUnwind_DropsLeaf(_, _, _, _, _, _)
purgeUnwind_DropsLeaf(h, n, parentStack, childPath, is4, depth) ==
  IF depth < 0
  THEN InsertResult(h, FALSE, FALSE)
  ELSE
    LET parent == parentStack[depth + 1]
        addr == childPath[depth + 1]
        pfxCount == ArrLen(h[n].prefixes)
        childCount == ArrLen(h[n].children)
        deleted == [h EXCEPT ![parent].children = DeleteAt(@, addr).arr]
        step ==
          IF isEmpty(h, n)
          THEN InsertResult(deleted, FALSE, FALSE)
          ELSE IF pfxCount = 0 /\ childCount = 1
          THEN IF h[h[n].children.Items[1]].kind = "leaf"
               THEN InsertResult(deleted, FALSE, FALSE)
               ELSE InsertResult(h, FALSE, FALSE)
          ELSE IF pfxCount = 1 /\ childCount = 0
          THEN LET idx == FirstSet(h[n].prefixes)[1]
                   val == h[n].prefixes.Items[1]
                   pfx == cidrFromPath(StridePath(childPath), depth + 1, is4, idx)
               IN  insertAtDepth(deleted, parent, pfx, val, depth)
          ELSE InsertResult(h, FALSE, FALSE)
    IN  IF step.panic
        THEN step
        ELSE purgeUnwind_DropsLeaf(step.h, parent, parentStack, childPath, is4, depth - 1)

\* purgeAndCompress whose loop moves the one leaf of a node into the parent as
\* it is, without inserting its prefix anew
RECURSIVE purgeUnwind_MovesLeaf(_, _, _, _, _, _)
purgeUnwind_MovesLeaf(h, n, parentStack, childPath, is4, depth) ==
  IF depth < 0
  THEN InsertResult(h, FALSE, FALSE)
  ELSE
    LET parent == parentStack[depth + 1]
        addr == childPath[depth + 1]
        pfxCount == ArrLen(h[n].prefixes)
        childCount == ArrLen(h[n].children)
        deleted == [h EXCEPT ![parent].children = DeleteAt(@, addr).arr]
        step ==
          IF isEmpty(h, n)
          THEN InsertResult(deleted, FALSE, FALSE)
          ELSE IF pfxCount = 0 /\ childCount = 1
          THEN LET kid == h[n].children.Items[1]
               IN  IF h[kid].kind = "leaf"
                   THEN InsertResult([h EXCEPT ![parent].children = InsertAt(@, addr, kid).arr],
                                     FALSE, FALSE)
                   ELSE InsertResult(h, FALSE, FALSE)
          ELSE IF pfxCount = 1 /\ childCount = 0
          THEN LET idx == FirstSet(h[n].prefixes)[1]
                   val == h[n].prefixes.Items[1]
                   pfx == cidrFromPath(StridePath(childPath), depth + 1, is4, idx)
               IN  insertAtDepth(deleted, parent, pfx, val, depth)
          ELSE InsertResult(h, FALSE, FALSE)
    IN  IF step.panic
        THEN step
        ELSE purgeUnwind_MovesLeaf(step.h, parent, parentStack, childPath, is4, depth - 1)

\* purgeAndCompress whose loop ends after the first node of the stack
purgeUnwind_OneLevel(h, n, parentStack, childPath, is4, depth) ==
  IF depth < 0
  THEN InsertResult(h, FALSE, FALSE)
  ELSE
    LET parent == parentStack[depth + 1]
        addr == childPath[depth + 1]
        pfxCount == ArrLen(h[n].prefixes)
        childCount == ArrLen(h[n].children)
        deleted == [h EXCEPT ![parent].children = DeleteAt(@, addr).arr]
    IN  IF isEmpty(h, n)
        THEN InsertResult(deleted, FALSE, FALSE)
        ELSE IF pfxCount = 0 /\ childCount = 1
        THEN LET kid == h[n].children.Items[1]
             IN  IF h[kid].kind = "leaf"
                 THEN insertAtDepth(deleted, parent, h[kid].prefix, h[kid].value, depth)
                 ELSE InsertResult(h, FALSE, FALSE)
        ELSE IF pfxCount = 1 /\ childCount = 0
        THEN LET idx == FirstSet(h[n].prefixes)[1]
                 val == h[n].prefixes.Items[1]
                 pfx == cidrFromPath(StridePath(childPath), depth + 1, is4, idx)
             IN  insertAtDepth(deleted, parent, pfx, val, depth)
        ELSE InsertResult(h, FALSE, FALSE)

\* the loop of purgeAndCompress at stack position depth, n the node below it
RECURSIVE purgeUnwind(_, _, _, _, _, _)
purgeUnwind(h, n, parentStack, childPath, is4, depth) ==
  IF depth < 0
  THEN InsertResult(h, FALSE, FALSE)
  ELSE
    LET parent == parentStack[depth + 1]
        addr == childPath[depth + 1]
        pfxCount == ArrLen(h[n].prefixes)
        childCount == ArrLen(h[n].children)
        deleted == [h EXCEPT ![parent].children = DeleteAt(@, addr).arr]
        step ==
          IF isEmpty(h, n)
          THEN InsertResult(deleted, FALSE, FALSE)
          ELSE IF pfxCount = 0 /\ childCount = 1
          THEN LET kid == h[n].children.Items[1]
               IN  IF h[kid].kind = "leaf"
                   THEN insertAtDepth(deleted, parent, h[kid].prefix, h[kid].value, depth)
                   ELSE InsertResult(h, FALSE, FALSE)
          ELSE IF pfxCount = 1 /\ childCount = 0
          THEN LET idx == FirstSet(h[n].prefixes)[1]
                   val == h[n].prefixes.Items[1]
                   pfx == cidrFromPath(StridePath(childPath), depth + 1, is4, idx)
               IN  insertAtDepth(deleted, parent, pfx, val, depth)
          ELSE InsertResult(h, FALSE, FALSE)
    IN  IF step.panic
        THEN step
        ELSE purgeUnwind(step.h, parent, parentStack, childPath, is4, depth - 1)

\* purgeAndCompress that leaves the trie as the deletion left it
purgeAndCompress_Keeps(h, n, parentStack, childPath, is4) == InsertResult(h, FALSE, FALSE)

\* n is the node the deletion ended in, parentStack its ancestors from the root
purgeAndCompress(h, n, parentStack, childPath, is4) ==
  purgeUnwind(h, n, parentStack, childPath, is4, Len(parentStack) - 1)

\* lpmGet whose backtracking stops before the default route, idx 1
lpmGet_NoDefaultRoute(h, n, idx) ==
  LET top == IntersectionTop(h[n].prefixes.BitSet, BackTrackingBitset(idx) \ {1})
  IN  IF top[2] THEN <<top[1], MustGet(h[n].prefixes, top[1]), TRUE>>
      ELSE <<0, Zero, FALSE>>

\* lpmGet that returns the shortest matching prefix
lpmGet_Shortest(h, n, idx) ==
  LET hits == h[n].prefixes.BitSet \cap BackTrackingBitset(idx)
  IN  IF hits # {} THEN <<SetMin(hits), MustGet(h[n].prefixes, SetMin(hits)), TRUE>>
      ELSE <<0, Zero, FALSE>>

\* <<baseIdx, val, ok>>
lpmGet(h, n, idx) ==
  LET top == IntersectionTop(h[n].prefixes.BitSet, BackTrackingBitset(idx))
  IN  IF top[2] THEN <<top[1], MustGet(h[n].prefixes, top[1]), TRUE>>
      ELSE <<0, Zero, FALSE>>

lpmTest(h, n, idx) == IntersectsAny(h[n].prefixes.BitSet, BackTrackingBitset(idx))

\* the result of a clone: the heap after it and the reference of the copy
RECURSIVE cloneRec(_, _)
RECURSIVE cloneKids(_, _, _)

\* the loop over c.children.Items of cloneRec, from item i on
cloneKids(h, c, i) ==
  IF i > Len(h[c].children.Items)
  THEN h
  ELSE
    LET kid == h[c].children.Items[i]
    IN  IF h[kid].kind = "node"
        THEN LET r == cloneRec(h, kid)
             IN  cloneKids([r.h EXCEPT ![c].children.Items[i] = r.id], c, i + 1)
        ELSE LET a == Alloc(h, cloneLeaf(h[kid]))
             IN  cloneKids([a.h EXCEPT ![c].children.Items[i] = a.id], c, i + 1)

\* cloneRec that hands out the node itself instead of a copy
cloneRec_Alias(h, n) == [h |-> h, id |-> n]

\* cloneRec that copies the node and leaves the children to be shared
cloneRec_Shallow(h, n) ==
  LET c == Alloc(h, NewNode)
  IN  IF isEmpty(h, n)
      THEN c
      ELSE [h |-> [c.h EXCEPT ![c.id].prefixes = Copy(h[n].prefixes),
                              ![c.id].children = Copy(h[n].children)],
            id |-> c.id]

cloneRec(h, n) ==
  LET c == Alloc(h, NewNode)
  IN  IF isEmpty(h, n)
      THEN c
      ELSE LET shallow == [c.h EXCEPT ![c.id].prefixes = Copy(h[n].prefixes),
                                      ![c.id].children = Copy(h[n].children)]
           IN  [h |-> cloneKids(shallow, c.id, 1), id |-> c.id]

\* ------------------------------------------------------------------------
\* unionRec, node.go
\* ------------------------------------------------------------------------

UnionResult(h, duplicates, panic) == [h |-> h, duplicates |-> duplicates, panic |-> panic]

\* the loop over o.prefixes of unionRec, oIdxs is the slice taken at its start
RECURSIVE unionPrefixes(_, _, _, _, _, _)
unionPrefixes(h, n, o, oIdxs, i, duplicates) ==
  IF i > Len(oIdxs)
  THEN UnionResult(h, duplicates, FALSE)
  ELSE LET r == InsertAt(h[n].prefixes, oIdxs[i], h[o].prefixes.Items[i])
       IN  unionPrefixes([h EXCEPT ![n].prefixes = r.arr], n, o, oIdxs, i + 1,
                         IF r.exists THEN duplicates + 1 ELSE duplicates)

RECURSIVE unionRec(_, _, _, _)
RECURSIVE unionChildren(_, _, _, _, _, _, _)

\* the loop over o.children of unionRec, addrs is the slice taken at its start
unionChildren(h, n, o, depth, addrs, i, duplicates) ==
  IF i > Len(addrs)
  THEN UnionResult(h, duplicates, FALSE)
  ELSE
    LET addr == addrs[i]
        this == Get(h[n].children, addr)
        otherChild == h[o].children.Items[i]
    IN  IF ~this.ok
        THEN \* NULL, node and NULL, leaf
          IF h[otherChild].kind = "node"
          THEN LET c == cloneRec(h, otherChild)
               IN  unionChildren([c.h EXCEPT ![n].children = InsertAt(@, addr, c.id).arr],
                                 n, o, depth, addrs, i + 1, duplicates)
          ELSE LET c == Alloc(h, cloneLeaf(h[otherChild]))
               IN  unionChildren([c.h EXCEPT ![n].children = InsertAt(@, addr, c.id).arr],
                                 n, o, depth, addrs, i + 1, duplicates)
        ELSE IF h[otherChild].kind = "node"
        THEN
          IF h[this.val].kind = "node"
          THEN \* node, node
            LET r == unionRec(h, this.val, otherChild, depth + 1)
            IN  IF r.panic THEN r
                ELSE unionChildren(r.h, n, o, depth, addrs, i + 1, duplicates + r.duplicates)
          ELSE \* leaf, node
            LET nc == Alloc(h, NewNode)
                pushed == insertAtDepth(nc.h, nc.id, h[this.val].prefix, h[this.val].value,
                                        depth + 1)
            IN  IF pushed.panic
                THEN UnionResult(pushed.h, duplicates, TRUE)
                ELSE
                  LET r == unionRec([pushed.h EXCEPT ![n].children = InsertAt(@, addr, nc.id).arr],
                                    nc.id, otherChild, depth + 1)
                  IN  IF r.panic THEN r
                      ELSE unionChildren(r.h, n, o, depth, addrs, i + 1,
                                         duplicates + r.duplicates)
        ELSE
          IF h[this.val].kind = "node"
          THEN \* node, leaf
            LET clonedLeaf == cloneLeaf(h[otherChild])
                r == insertAtDepth(h, this.val, clonedLeaf.prefix, clonedLeaf.value, depth + 1)
            IN  IF r.panic
                THEN UnionResult(r.h, duplicates, TRUE)
                ELSE unionChildren(r.h, n, o, depth, addrs, i + 1,
                                   IF r.exists THEN duplicates + 1 ELSE duplicates)
          ELSE \* leaf, leaf
            LET nc == Alloc(h, NewNode)
                pushed == insertAtDepth(nc.h, nc.id, h[this.val].prefix, h[this.val].value,
                                        depth + 1)
                clonedLeaf == cloneLeaf(h[otherChild])
            IN  IF pushed.panic
                THEN UnionResult(pushed.h, duplicates, TRUE)
                ELSE
                  LET r == insertAtDepth(pushed.h, nc.id, clonedLeaf.prefix, clonedLeaf.value,
                                         depth + 1)
                  IN  IF r.panic
                      THEN UnionResult(r.h, duplicates, TRUE)
                      ELSE unionChildren(
                             [r.h EXCEPT ![n].children = InsertAt(@, addr, nc.id).arr],
                             n, o, depth, addrs, i + 1,
                             IF r.exists THEN duplicates + 1 ELSE duplicates)

unionRec(h, n, o, depth) ==
  LET pfxs == unionPrefixes(h, n, o, AsSlice(h[o].prefixes), 1, 0)
  IN  unionChildren(pfxs.h, n, o, depth, AsSlice(h[o].children), 1, pfxs.duplicates)

\* ------------------------------------------------------------------------
\* The overlap engine, overlaps.go
\* The functions that can end in panic("unreachable") return one of
\* "true", "false", "panic".
\* ------------------------------------------------------------------------

Tri(b) == IF b THEN "true" ELSE "false"

\* overlapsRoutes whose scans start behind the lowest index of the other node
overlapsRoutes_StartsBehind(h, n, o) ==
  IF IntersectsAny(h[n].prefixes.BitSet, h[o].prefixes.BitSet)
  THEN TRUE
  ELSE \E a \in h[n].prefixes.BitSet : \E b \in h[o].prefixes.BitSet :
         /\ a > FirstSet(h[o].prefixes)[1]
         /\ b > FirstSet(h[n].prefixes)[1]
         /\ (lpmTest(h, o, a) \/ lpmTest(h, n, b))

\* the zip loop of overlapsRoutes
RECURSIVE overlapsRoutesLoop(_, _, _, _, _, _, _)
overlapsRoutesLoop(h, n, o, nIdx, oIdx, nOK, oOK) ==
  IF ~(nOK \/ oOK)
  THEN FALSE
  ELSE
    LET nNext == IF nOK THEN NextSet(h[n].prefixes, nIdx) ELSE <<nIdx, FALSE>>
        nHit == nOK /\ nNext[2] /\ lpmTest(h, o, nNext[1])
        nIdx2 == IF nOK /\ nNext[2] THEN nNext[1] + 1 ELSE nNext[1]
        oNext == IF oOK THEN NextSet(h[o].prefixes, oIdx) ELSE <<oIdx, FALSE>>
        oHit == oOK /\ oNext[2] /\ lpmTest(h, n, oNext[1])
        oIdx2 == IF oOK /\ oNext[2] THEN oNext[1] + 1 ELSE oNext[1]
    IN  IF nHit THEN TRUE
        ELSE IF oHit THEN TRUE
        ELSE overlapsRoutesLoop(h, n, o, nIdx2, oIdx2, nNext[2], oNext[2])

overlapsRoutes(h, n, o) ==
  IF IntersectsAny(h[n].prefixes.BitSet, h[o].prefixes.BitSet)
  THEN TRUE
  ELSE LET nFirstIdx == FirstSet(h[n].prefixes)[1]
           oFirstIdx == FirstSet(h[o].prefixes)[1]
       IN  overlapsRoutesLoop(h, n, o, oFirstIdx, nFirstIdx, TRUE, TRUE)

\* the union of the alloted host routes of all indices
RECURSIVE UnionHostRoutes(_, _)
UnionHostRoutes(allIndices, i) ==
  IF i > Len(allIndices) THEN {}
  ELSE IdxToHostRoutes(allIndices[i]) \cup UnionHostRoutes(allIndices, i + 1)

\* the range over the children with the lower bound turned round: it skips
\* the children at and above the lowest prefix
overlapsChildrenInRange_SkipsAbove(h, n, o) ==
  LET lowerBound == FirstSet(h[n].prefixes)[1]
  IN  \E addr \in h[o].children.BitSet :
        /\ octetToBaseIndex(addr) < lowerBound
        /\ lpmTest(h, n, octetToBaseIndex(addr))

\* overlapsChildrenIn, doRange: range over the children of o
overlapsChildrenInRange(h, n, o) ==
  LET lowerBound == FirstSet(h[n].prefixes)[1]
  IN  \E addr \in h[o].children.BitSet :
        /\ ~(octetToBaseIndex(addr) < lowerBound)
        /\ lpmTest(h, n, octetToBaseIndex(addr))

\* overlapsChildrenIn, otherwise: intersect the alloted host routes of the
\* prefixes of n with the children of o
overlapsChildrenInAllot(h, n, o) ==
  IntersectsAny(UnionHostRoutes(AsSlice(h[n].prefixes), 1), h[o].children.BitSet)

overlapsChildrenIn(h, n, o) ==
  LET pfxCount == ArrLen(h[n].prefixes)
      childCount == ArrLen(h[o].children)
      doRange == childCount < magicNumber \/ pfxCount > magicNumber
  IN  IF doRange
      THEN overlapsChildrenInRange(h, n, o)
      ELSE overlapsChildrenInAllot(h, n, o)

\* overlapsIdx without the test of the children below the prefix
overlapsIdx_NoChildren(h, n, idx) ==
  \/ lpmTest(h, n, idx)
  \/ IntersectsAny(IdxToPrefixRoutes(idx), h[n].prefixes.BitSet)

overlapsIdx(h, n, idx) ==
  \/ lpmTest(h, n, idx)
  \/ IntersectsAny(IdxToPrefixRoutes(idx), h[n].prefixes.BitSet)
  \/ IntersectsAny(IdxToHostRoutes(idx), h[n].children.BitSet)

RECURSIVE overlapsPrefixAtDepth(_, _, _, _)
overlapsPrefixAtDepth(h, n, pfx, depth) ==
  LET octets == pfx.addr
      lastIdx == lastOctetIdxAndBits(pfx.bits)[1]
      lastBits == lastOctetIdxAndBits(pfx.bits)[2]
  IN  IF ~(depth < Len(octets)) \/ depth > lastIdx
      THEN "panic"
      ELSE
        LET octet == octets[depth + 1]
            addr == octet
        IN  IF depth = lastIdx
            THEN Tri(overlapsIdx(h, n, prefixToBaseIndex(octet, lastBits)))
            ELSE IF ArrLen(h[n].prefixes) # 0 /\ lpmTest(h, n, octetToBaseIndex(addr))
            THEN "true"
            ELSE IF ~Test(h[n].children, addr)
            THEN "false"
            ELSE LET kid == MustGet(h[n].children, addr)
                 IN  IF h[kid].kind = "node"
                     THEN overlapsPrefixAtDepth(h, kid, pfx, depth + 1)
                     ELSE Tri(PrefixOverlaps(h[kid].prefix, pfx))

RECURSIVE overlaps(_, _, _, _)
RECURSIVE overlapsSameChildrenLoop(_, _, _, _, _)

\* overlapsTwoChilds that compares two leaves for equality
overlapsTwoChilds_LeafEqual(h, nChild, oChild, depth) ==
  IF h[nChild].kind = "node"
  THEN IF h[oChild].kind = "node"
       THEN overlaps(h, nChild, oChild, depth)
       ELSE overlapsPrefixAtDepth(h, nChild, h[oChild].prefix, depth)
  ELSE IF h[oChild].kind = "node"
       THEN overlapsPrefixAtDepth(h, oChild, h[nChild].prefix, depth)
       ELSE Tri(h[oChild].prefix = h[nChild].prefix)

overlapsTwoChilds(h, nChild, oChild, depth) ==
  IF h[nChild].kind = "node"
  THEN IF h[oChild].kind = "node"
       THEN overlaps(h, nChild, oChild, depth)
       ELSE overlapsPrefixAtDepth(h, nChild, h[oChild].prefix, depth)
  ELSE IF h[oChild].kind = "node"
       THEN overlapsPrefixAtDepth(h, oChild, h[nChild].prefix, depth)
       ELSE Tri(PrefixOverlaps(h[oChild].prefix, h[nChild].prefix))

\* the loop of overlapsSameChildren over the common child octets, ascending
overlapsSameChildrenLoop(h, n, o, depth, addrs) ==
  IF addrs = <<>>
  THEN "false"
  ELSE LET addr == Head(addrs)
           r == overlapsTwoChilds(h, MustGet(h[n].children, addr),
                                  MustGet(h[o].children, addr), depth + 1)
       IN  IF r # "false" THEN r
           ELSE overlapsSameChildrenLoop(h, n, o, depth, Tail(addrs))

overlapsSameChildren(h, n, o, depth) ==
  overlapsSameChildrenLoop(h, n, o, depth,
                           SortedSeq(h[n].children.BitSet \cap h[o].children.BitSet))

\* steps 2 and 3 of overlaps, after the swap that gives n the fewer children
overlapsAfterSwap(h, n, o, depth) ==
  LET nPfxCount == ArrLen(h[n].prefixes)
      oPfxCount == ArrLen(h[o].prefixes)
      nChildCount == ArrLen(h[n].children)
      oChildCount == ArrLen(h[o].children)
  IN  IF nPfxCount > 0 /\ oChildCount > 0 /\ overlapsChildrenIn(h, n, o)
      THEN "true"
      ELSE IF oPfxCount > 0 /\ nChildCount > 0 /\ overlapsChildrenIn(h, o, n)
      THEN "true"
      ELSE IF nChildCount = 0 \/ oChildCount = 0
      THEN "false"
      ELSE IF ~IntersectsAny(h[n].children.BitSet, h[o].children.BitSet)
      THEN "false"
      ELSE overlapsSameChildren(h, n, o, depth)

overlaps(h, n, o, depth) ==
  IF ArrLen(h[n].prefixes) > 0 /\ ArrLen(h[o].prefixes) > 0 /\ overlapsRoutes(h, n, o)
  THEN "true"
  ELSE IF ArrLen(h[n].children) > ArrLen(h[o].children)
       THEN overlapsAfterSwap(h, o, n, depth)
       ELSE overlapsAfterSwap(h, n, o, depth)

\* ------------------------------------------------------------------------
\* allRec, node.go: the yielded <<prefix, value>> pairs in yield order
\* ------------------------------------------------------------------------

RECURSIVE allRec(_, _, _, _, _)
RECURSIVE allRecChildren(_, _, _, _, _, _, _)

\* the loop over the children of allRec, addrs is the slice taken at its start
allRecChildren(h, n, path, depth, is4, addrs, i) ==
  IF i > Len(addrs)
  THEN <<>>
  ELSE LET kid == h[n].children.Items[i]
       IN  IF h[kid].kind = "node"
           THEN allRec(h, kid, [path EXCEPT ![depth + 1] = addrs[i]], depth + 1, is4)
                  \o allRecChildren(h, n, [path EXCEPT ![depth + 1] = addrs[i]],
                                    depth, is4, addrs, i + 1)
           ELSE <<<<h[kid].prefix, h[kid].value>>>>
                  \o allRecChildren(h, n, path, depth, is4, addrs, i + 1)

allRec(h, n, path, depth, is4) ==
  LET idxs == AsSlice(h[n].prefixes)
  IN  [k \in 1..Len(idxs) |->
         <<cidrFromPath(path, depth, is4, idxs[k]), MustGet(h[n].prefixes, idxs[k])>>]
        \o allRecChildren(h, n, path, depth, is4, AsSlice(h[n].children), 1)

\* ------------------------------------------------------------------------
\* The Table facade: two roots and two size counters
\* ------------------------------------------------------------------------

rootNodeByVersion(tbl, is4) == IF is4 THEN tbl.root4 ELSE tbl.root6

sizeUpdate(tbl, is4, n) ==
  IF is4 THEN [tbl EXCEPT !.size4 = @ + n] ELSE [tbl EXCEPT !.size6 = @ + n]

Size(tbl) == tbl.size4 + tbl.size6

\* Insert: [h, tbl, exists, panic]
TableInsert(h, tbl, pfx, val) ==
  LET r == insertAtDepth(h, rootNodeByVersion(tbl, pfx.is4), pfx, val, 0)
  IN  [h |-> r.h,
       tbl |-> IF r.exists \/ r.panic THEN tbl ELSE sizeUpdate(tbl, pfx.is4, 1),
       exists |-> r.exists, panic |-> r.panic]

\* InsertPersist: the new table has a flat clone of the root of pfx's family
\* and the other root of tbl
TableInsertPersist(h, tbl, pfx, val) ==
  LET c == cloneFlat(h, rootNodeByVersion(tbl, pfx.is4))
      pt == IF pfx.is4 THEN [tbl EXCEPT !.root4 = c.id] ELSE [tbl EXCEPT !.root6 = c.id]
      r == insertAtDepthPersist(c.h, c.id, pfx, val, 0)
  IN  [h |-> r.h,
       tbl |-> IF r.exists \/ r.panic THEN pt ELSE sizeUpdate(pt, pfx.is4, 1),
       exists |-> r.exists, panic |-> r.panic]

\* the descent of Delete: stack holds the nodes above n, from the root
RECURSIVE deleteAtDepth(_, _, _, _, _, _)
deleteAtDepth(h, tbl, n, pfx, depth, stack) ==
  LET octets == pfx.addr
      lastIdx == lastOctetIdxAndBits(pfx.bits)[1]
      lastBits == lastOctetIdxAndBits(pfx.bits)[2]
      notFound == [h |-> h, tbl |-> tbl, val |-> Zero, exists |-> FALSE, panic |-> FALSE]
  IN  IF ~(depth < Len(octets))
      THEN notFound
      ELSE
        LET octet == octets[depth + 1]
            addr == octet
        IN  IF depth = lastIdx
            THEN LET d == DeleteAt(h[n].prefixes, prefixToBaseIndex(octet, lastBits))
                     p == purgeAndCompress([h EXCEPT ![n].prefixes = d.arr], n, stack,
                                           octets, pfx.is4)
                 IN  IF ~d.exists THEN notFound
                     ELSE [h |-> p.h, tbl |-> sizeUpdate(tbl, pfx.is4, -1), val |-> d.val,
                           exists |-> TRUE, panic |-> p.panic]
            ELSE IF ~Test(h[n].children, addr)
            THEN notFound
            ELSE
              LET kid == MustGet(h[n].children, addr)
              IN  IF h[kid].kind = "node"
                  THEN deleteAtDepth(h, tbl, kid, pfx, depth + 1, Append(stack, n))
                  ELSE IF h[kid].prefix # pfx
                  THEN notFound
                  ELSE LET p == purgeAndCompress(
                                  [h EXCEPT ![n].children = DeleteAt(@, addr).arr], n, stack,
                                  octets, pfx.is4)
                       IN  [h |-> p.h, tbl |-> sizeUpdate(tbl, pfx.is4, -1),
                            val |-> h[kid].value, exists |-> TRUE, panic |-> p.panic]

\* Delete: [h, tbl, val, exists, panic]
TableDelete(h, tbl, pfx) ==
  deleteAtDepth(h, tbl, rootNodeByVersion(tbl, pfx.is4), pfx, 0, <<>>)

\* Get: [val, ok]
RECURSIVE getAtDepth(_, _, _, _)
getAtDepth(h, n, pfx, depth) ==
  LET octets == pfx.addr
      lastIdx == lastOctetIdxAndBits(pfx.bits)[1]
      lastBits == lastOctetIdxAndBits(pfx.bits)[2]
      notFound == [val |-> Zero, ok |-> FALSE]
  IN  IF ~(depth < Len(octets))
      THEN notFound
      ELSE
        LET octet == octets[depth + 1]
        IN  IF depth = lastIdx
            THEN Get(h[n].prefixes, prefixToBaseIndex(octet, lastBits))
            ELSE IF ~Test(h[n].children, octet)
            THEN notFound
            ELSE LET kid == MustGet(h[n].children, octet)
                 IN  IF h[kid].kind = "node"
                     THEN getAtDepth(h, kid, pfx, depth + 1)
                     ELSE IF h[kid].prefix = pfx
                     THEN [val |-> h[kid].value, ok |-> TRUE]
                     ELSE notFound

TableGet(h, tbl, pfx) == getAtDepth(h, rootNodeByVersion(tbl, pfx.is4), pfx, 0)

\* the backtracking of Lookup: the longest prefix match in the deepest node
\* of the stack that has one
RECURSIVE lookupBacktrack(_, _, _, _)
lookupBacktrack(h, ip, stack, depth) ==
  IF depth < 0
  THEN [val |-> Zero, ok |-> FALSE]
  ELSE LET n == stack[depth + 1]
           m == lpmGet(h, n, octetToBaseIndex(ip.addr[depth + 1]))
       IN  IF ArrLen(h[n].prefixes) # 0 /\ m[3]
           THEN [val |-> m[2], ok |-> TRUE]
           ELSE lookupBacktrack(h, ip, stack, depth - 1)

\* the descent of Lookup: a leaf matches when it is a fringe or contains ip
RECURSIVE lookupAtDepth(_, _, _, _, _)
lookupAtDepth(h, n, ip, depth, stack) ==
  LET octets == ip.addr
      pushed == Append(stack, n)
      addr == octets[depth + 1]
  IN  IF ~Test(h[n].children, addr)
      THEN lookupBacktrack(h, ip, pushed, depth)
      ELSE LET kid == MustGet(h[n].children, addr)
           IN  IF h[kid].kind = "node"
               THEN IF depth + 1 < Len(octets)
                    THEN lookupAtDepth(h, kid, ip, depth + 1, pushed)
                    ELSE lookupBacktrack(h, ip, pushed, depth)
               ELSE IF h[kid].fringe \/ PrefixContains(h[kid].prefix, ip)
               THEN [val |-> h[kid].value, ok |-> TRUE]
               ELSE lookupBacktrack(h, ip, pushed, depth)

\* Lookup: [val, ok]
TableLookup(h, tbl, ip) == lookupAtDepth(h, rootNodeByVersion(tbl, ip.is4), ip, 0, <<>>)

\* Union: [h, tbl, dup4, dup6, panic]
TableUnion(h, tbl, other) ==
  LET u4 == unionRec(h, tbl.root4, other.root4, 0)
      u6 == unionRec(u4.h, tbl.root6, other.root6, 0)
  IN  IF u4.panic
      THEN [h |-> u4.h, tbl |-> tbl, dup4 |-> 0, dup6 |-> 0, panic |-> TRUE]
      ELSE IF u6.panic
      THEN [h |-> u6.h, tbl |-> tbl, dup4 |-> u4.duplicates, dup6 |-> 0, panic |-> TRUE]
      ELSE [h |-> u6.h,
            tbl |-> [tbl EXCEPT !.size4 = @ + other.size4 - u4.duplicates,
                                !.size6 = @ + other.size6 - u6.duplicates],
            dup4 |-> u4.duplicates, dup6 |-> u6.duplicates, panic |-> FALSE]

\* Clone: [h, tbl]
TableClone(h, tbl) ==
  LET c4 == cloneRec(h, tbl.root4)
      c6 == cloneRec(c4.h, tbl.root6)
  IN  [h |-> c6.h,
       tbl |-> [root4 |-> c4.id, root6 |-> c6.id, size4 |-> tbl.size4, size6 |-> tbl.size6]]

\* Overlaps: "true", "false" or "panic"
TableOverlaps(h, tbl, other) ==
  LET o4 == overlaps(h, tbl.root4, other.root4, 0)
  IN  IF o4 # "false" THEN o4 ELSE overlaps(h, tbl.root6, other.root6, 0)

TableOverlapsPrefix(h, tbl, pfx) ==
  overlapsPrefixAtDepth(h, rootNodeByVersion(tbl, pfx.is4), pfx, 0)

\* All: the pairs of both families
TableAll(h, tbl) ==
  allRec(h, tbl.root4, StridePath(<<>>), 0, TRUE)
    \o allRec(h, tbl.root6, StridePath(<<>>), 0, FALSE)

\* ------------------------------------------------------------------------
\* The iterators with a yield that can end the iteration, node.go
\* An iteration is the record y of the pairs yielded so far and the number
\* of the yield call that returns false (0: yield returns true every time).
\* Every iterator returns [y, ok]: ok is the bool the Go function returns.
\* ------------------------------------------------------------------------

\* r := x; F(r): the value x is computed once, as a local variable's is
Bind(x, F(_)) == CHOOSE v \in { F(r) : r \in {x} } : TRUE

NewYield(stop) == [out |-> <<>>, stop |-> stop]

\* one call of yield(pfx, val)
Yield(y, pfx, val) ==
  [y |-> [y EXCEPT !.out = Append(@, <<pfx, val>>)], ok |-> Len(y.out) + 1 # y.stop]

\* art.IdxToPfx: <<octet, pfxLen>> of a base index
IdxToPfx(idx) == baseIndexToPrefix(idx)

\* art.IdxToRange: <<first, last>> octet that a base index covers
IdxToRange(idx) ==
  <<hostRoutesByIndex(idx)[1] - firstHostIndex, hostRoutesByIndex(idx)[2] - firstHostIndex>>

\* lessIndexRank that compares the indices themselves
lessIndexRank_ByIdx(aIdx, bIdx) == aIdx < bIdx

lessIndexRank(aIdx, bIdx) ==
  LET aOctet == IdxToPfx(aIdx)[1]
      aBits == IdxToPfx(aIdx)[2]
      bOctet == IdxToPfx(bIdx)[1]
      bBits == IdxToPfx(bIdx)[2]
  IN  IF aOctet = bOctet THEN aBits < bBits ELSE aOctet < bOctet

\* sort.Slice by lessIndexRank of the indices in S
RECURSIVE SortedByRank(_)
SortedByRank(S) ==
  IF S = {}
  THEN <<>>
  ELSE LET least == CHOOSE a \in S : \A b \in S \ {a} : lessIndexRank(a, b)
       IN  <<least>> \o SortedByRank(S \ {least})

\* the first loop of allRec: the prefixes of n from position i of idxs on
RECURSIVE allRecPrefixes(_, _, _, _, _, _, _, _)
allRecPrefixes(h, n, path, depth, is4, idxs, i, y) ==
  IF i > Len(idxs)
  THEN [y |-> y, ok |-> TRUE]
  ELSE Bind(Yield(y, cidrFromPath(path, depth, is4, idxs[i]), MustGet(h[n].prefixes, idxs[i])),
            LAMBDA r : IF ~r.ok THEN r
                       ELSE allRecPrefixes(h, n, path, depth, is4, idxs, i + 1, r.y))

RECURSIVE allRecYield(_, _, _, _, _, _)
RECURSIVE allRecKids(_, _, _, _, _, _, _, _)

\* allRecKids that goes on to the next child after a yield that returned false
allRecKids_IgnoresFalse(h, n, path, depth, is4, addrs, i, y) ==
  IF i > Len(addrs)
  THEN [y |-> y, ok |-> TRUE]
  ELSE
    LET kid == h[n].children.Items[i]
        down == [path EXCEPT ![depth + 1] = addrs[i]]
    IN  IF h[kid].kind = "node"
        THEN Bind(allRecYield(h, kid, down, depth + 1, is4, y),
                  LAMBDA r : Bind(allRecKids(h, n, down, depth, is4, addrs, i + 1, r.y),
                                  LAMBDA rest : [y |-> rest.y, ok |-> r.ok /\ rest.ok]))
        ELSE Bind(Yield(y, h[kid].prefix, h[kid].value),
                  LAMBDA r : Bind(allRecKids(h, n, path, depth, is4, addrs, i + 1, r.y),
                                  LAMBDA rest : [y |-> rest.y, ok |-> r.ok /\ rest.ok]))

\* the second loop of allRec: the children of n from position i of addrs on
allRecKids(h, n, path, depth, is4, addrs, i, y) ==
  IF i > Len(addrs)
  THEN [y |-> y, ok |-> TRUE]
  ELSE
    LET kid == h[n].children.Items[i]
        down == [path EXCEPT ![depth + 1] = addrs[i]]
    IN  IF h[kid].kind = "node"
        THEN Bind(allRecYield(h, kid, down, depth + 1, is4, y),
                  LAMBDA r : IF ~r.ok THEN r
                             ELSE allRecKids(h, n, down, depth, is4, addrs, i + 1, r.y))
        ELSE Bind(Yield(y, h[kid].prefix, h[kid].value),
                  LAMBDA r : IF ~r.ok THEN r
                             ELSE allRecKids(h, n, path, depth, is4, addrs, i + 1, r.y))

\* allRec with its yield
allRecYield(h, n, path, depth, is4, y) ==
  Bind(AsSlice(h[n].prefixes), LAMBDA allIndices :
  Bind(AsSlice(h[n].children), LAMBDA allChildAddrs :
  Bind(allRecPrefixes(h, n, path, depth, is4, allIndices, 1, y), LAMBDA p :
    IF ~p.ok THEN p
    ELSE allRecKids(h, n, path, depth, is4, allChildAddrs, 1, p.y))))

RECURSIVE allRecSorted(_, _, _, _, _, _)
RECURSIVE sortedKids(_, _, _, _, _, _, _, _, _)
RECURSIVE sortedMerge(_, _, _, _, _, _, _, _, _, _)

\* the loops over the children of allRecSorted and eachSubnet: the children
\* kids[j..] at the octets addrs[j..] that are below limit, in ascending order;
\* cursor is the position of the first child that was not yielded
sortedKids(h, path, depth, is4, addrs, kids, j, limit, y) ==
  IF j > Len(addrs) \/ addrs[j] >= limit
  THEN [y |-> y, ok |-> TRUE, cursor |-> j, path |-> path]
  ELSE
    LET kid == kids[j]
        down == [path EXCEPT ![depth + 1] = addrs[j]]
    IN  IF h[kid].kind = "node"
        THEN Bind(allRecSorted(h, kid, down, depth + 1, is4, y),
                  LAMBDA r : IF ~r.ok THEN [y |-> r.y, ok |-> FALSE, cursor |-> j, path |-> down]
                             ELSE sortedKids(h, down, depth, is4, addrs, kids, j + 1, limit, r.y))
        ELSE Bind(Yield(y, h[kid].prefix, h[kid].value),
                  LAMBDA r : IF ~r.ok THEN [y |-> r.y, ok |-> FALSE, cursor |-> j, path |-> path]
                             ELSE sortedKids(h, path, depth, is4, addrs, kids, j + 1, limit, r.y))

\* the merge of allRecSorted and eachSubnet: the prefixes idxs[k..] of n in
\* rank order, before each the children below its octet, at last the rest
sortedMerge(h, n, path, depth, is4, idxs, k, addrs, kids, at) ==
  IF k > Len(idxs)
  THEN Bind(sortedKids(h, path, depth, is4, addrs, kids, at.cursor, maxItems, at.y),
            LAMBDA rest : [y |-> rest.y, ok |-> rest.ok])
  ELSE
    Bind(sortedKids(h, path, depth, is4, addrs, kids, at.cursor, IdxToPfx(idxs[k])[1], at.y),
         LAMBDA before :
      IF ~before.ok THEN [y |-> before.y, ok |-> FALSE]
      ELSE Bind(Yield(before.y, cidrFromPath(before.path, depth, is4, idxs[k]),
                      MustGet(h[n].prefixes, idxs[k])),
                LAMBDA r :
             IF ~r.ok THEN r
             ELSE sortedMerge(h, n, before.path, depth, is4, idxs, k + 1, addrs, kids,
                              [y |-> r.y, cursor |-> before.cursor])))

allRecSorted(h, n, path, depth, is4, y) ==
  Bind(AsSlice(h[n].children), LAMBDA allChildAddrs :
  Bind(SortedByRank(h[n].prefixes.BitSet), LAMBDA allIndices :
    sortedMerge(h, n, path, depth, is4, allIndices, 1, allChildAddrs, h[n].children.Items,
                [y |-> y, cursor |-> 1])))

\* the backtracking loop of eachLookupPrefix, from idx up to 1
RECURSIVE eachLookupPrefixLoop(_, _, _, _, _, _, _)
\* eachLookupPrefixLoop that goes on after a yield that returned false
eachLookupPrefixLoop_IgnoresFalse(h, n, path, depth, is4, idx, y) ==
  IF ~(idx > 0)
  THEN [y |-> y, ok |-> TRUE]
  ELSE IF Test(h[n].prefixes, idx)
  THEN Bind(Yield(y, cidrFromPath(path, depth, is4, idx), MustGet(h[n].prefixes, idx)),
            LAMBDA r : Bind(eachLookupPrefixLoop(h, n, path, depth, is4, Shr(idx, 1), r.y),
                            LAMBDA rest : [y |-> rest.y, ok |-> r.ok /\ rest.ok]))
  ELSE eachLookupPrefixLoop(h, n, path, depth, is4, Shr(idx, 1), y)

eachLookupPrefixLoop(h, n, path, depth, is4, idx, y) ==
  IF ~(idx > 0)
  THEN [y |-> y, ok |-> TRUE]
  ELSE IF Test(h[n].prefixes, idx)
  THEN Bind(Yield(y, cidrFromPath(path, depth, is4, idx), MustGet(h[n].prefixes, idx)),
            LAMBDA r : IF ~r.ok THEN r
                       ELSE eachLookupPrefixLoop(h, n, path, depth, is4, Shr(idx, 1), r.y))
  ELSE eachLookupPrefixLoop(h, n, path, depth, is4, Shr(idx, 1), y)

\* eachLookupPrefix that walks the matches from the shortest to the longest
eachLookupPrefix_ShortestFirst(h, n, octets, depth, is4, pfxLen, y) ==
  Bind(SortedSeq(h[n].prefixes.BitSet
                   \cap BackTrackingBitset(prefixToBaseIndex(octets[depth + 1], pfxLen))),
       LAMBDA idxs : allRecPrefixes(h, n, StridePath(octets), depth, is4, idxs, 1, y))

eachLookupPrefix(h, n, octets, depth, is4, pfxLen, y) ==
  IF ArrLen(h[n].prefixes) = 0
  THEN [y |-> y, ok |-> TRUE]
  ELSE eachLookupPrefixLoop(h, n, StridePath(octets), depth, is4,
                            prefixToBaseIndex(octets[depth + 1], pfxLen), y)

\* eachSubnet that takes every child of the node as covered
eachSubnet_AllChildren(h, n, octets, depth, is4, pfxLen, y) ==
  LET pfxFirstAddr == IdxToRange(prefixToBaseIndex(octets[depth + 1], pfxLen))[1]
      pfxLastAddr == IdxToRange(prefixToBaseIndex(octets[depth + 1], pfxLen))[2]
      allCoveredIndices ==
        SortedByRank({ idx \in h[n].prefixes.BitSet :
                         /\ IdxToRange(idx)[1] >= pfxFirstAddr
                         /\ IdxToRange(idx)[2] <= pfxLastAddr })
  IN  Bind(allCoveredIndices, LAMBDA idxs :
      Bind(AsSlice(h[n].children), LAMBDA addrs :
        sortedMerge(h, n, StridePath(octets), depth, is4, idxs, 1,
                    addrs, h[n].children.Items, [y |-> y, cursor |-> 1])))

\* n.children.MustGet(addr) for every addr of addrs
RECURSIVE MustGetAll(_, _)
MustGetAll(s, addrs) ==
  IF addrs = <<>> THEN <<>> ELSE <<MustGet(s, Head(addrs))>> \o MustGetAll(s, Tail(addrs))

eachSubnet(h, n, octets, depth, is4, pfxLen, y) ==
  LET path == StridePath(octets)
      pfxFirstAddr == IdxToRange(prefixToBaseIndex(octets[depth + 1], pfxLen))[1]
      pfxLastAddr == IdxToRange(prefixToBaseIndex(octets[depth + 1], pfxLen))[2]
      allCoveredIndices ==
        SortedByRank({ idx \in h[n].prefixes.BitSet :
                         /\ IdxToRange(idx)[1] >= pfxFirstAddr
                         /\ IdxToRange(idx)[2] <= pfxLastAddr })
      allCoveredChildAddrs ==
        SortedSeq({ addr \in h[n].children.BitSet : addr >= pfxFirstAddr /\ addr <= pfxLastAddr })
  IN  Bind(allCoveredIndices, LAMBDA idxs :
      Bind(allCoveredChildAddrs, LAMBDA addrs :
      Bind(MustGetAll(h[n].children, addrs), LAMBDA kids :
        sortedMerge(h, n, path, depth, is4, idxs, 1, addrs, kids, [y |-> y, cursor |-> 1]))))

\* ------------------------------------------------------------------------
\* The iterators of the Table facade
\* ------------------------------------------------------------------------

\* All: the v4 trie, then the v6 trie
TableAllYield(h, tbl, stop) ==
  Bind(allRecYield(h, tbl.root4, StridePath(<<>>), 0, TRUE, NewYield(stop)),
       LAMBDA r4 : IF ~r4.ok THEN r4
                   ELSE allRecYield(h, tbl.root6, StridePath(<<>>), 0, FALSE, r4.y))

\* AllSorted: the v4 trie, then the v6 trie
TableAllSorted(h, tbl, stop) ==
  Bind(allRecSorted(h, tbl.root4, StridePath(<<>>), 0, TRUE, NewYield(stop)),
       LAMBDA r4 : IF ~r4.ok THEN r4
                   ELSE allRecSorted(h, tbl.root6, StridePath(<<>>), 0, FALSE, r4.y))

\* the descent of Subnets and EachSubnet to the node of pfx's last octet
RECURSIVE subnetsAtDepth(_, _, _, _, _)
subnetsAtDepth(h, n, pfx, depth, y) ==
  LET octets == pfx.addr
      lastIdx == lastOctetIdxAndBits(pfx.bits)[1]
      lastBits == lastOctetIdxAndBits(pfx.bits)[2]
  IN  IF ~(depth < Len(octets))
      THEN [y |-> y, ok |-> TRUE]
      ELSE IF depth = lastIdx
      THEN eachSubnet(h, n, octets, depth, pfx.is4, lastBits, y)
      ELSE IF ~Test(h[n].children, octets[depth + 1])
      THEN [y |-> y, ok |-> TRUE]
      ELSE LET kid == MustGet(h[n].children, octets[depth + 1])
           IN  IF h[kid].kind = "node"
               THEN subnetsAtDepth(h, kid, pfx, depth + 1, y)
               ELSE IF pfx.bits <= h[kid].prefix.bits /\ PrefixOverlaps(pfx, h[kid].prefix)
               THEN Yield(y, h[kid].prefix, h[kid].value)
               ELSE [y |-> y, ok |-> TRUE]

\* Subnets and EachSubnet: [y, ok]
TableSubnets(h, tbl, pfx, stop) ==
  subnetsAtDepth(h, rootNodeByVersion(tbl, pfx.is4), pfx, 0, NewYield(stop))

\* the unwinding of Supernets and EachLookupPrefix: the nodes of the stack from
\* the deepest to the root
RECURSIVE supernetsUnwind(_, _, _, _, _)
supernetsUnwind(h, pfx, stack, depth, y) ==
  IF depth < 0
  THEN [y |-> y, ok |-> TRUE]
  ELSE LET lastIdx == lastOctetIdxAndBits(pfx.bits)[1]
           lastBits == lastOctetIdxAndBits(pfx.bits)[2]
           pfxLen == IF depth = lastIdx THEN lastBits ELSE strideLen
       IN  Bind(eachLookupPrefix(h, stack[depth + 1], pfx.addr, depth, pfx.is4, pfxLen, y),
                LAMBDA r : IF ~r.ok THEN r
                           ELSE supernetsUnwind(h, pfx, stack, depth - 1, r.y))

\* the descent of Supernets and EachLookupPrefix: a leaf on the path is
\* yielded when it covers pfx, then the stack is unwound
RECURSIVE supernetsAtDepth(_, _, _, _, _, _)
supernetsAtDepth(h, n, pfx, depth, stack, y) ==
  LET octets == pfx.addr
      lastIdx == lastOctetIdxAndBits(pfx.bits)[1]
      pushed == Append(stack, n)
  IN  IF depth = lastIdx \/ ~Test(h[n].children, octets[depth + 1])
      THEN supernetsUnwind(h, pfx, pushed, depth, y)
      ELSE LET kid == MustGet(h[n].children, octets[depth + 1])
           IN  IF h[kid].kind = "node"
               THEN IF depth + 1 < Len(octets)
                    THEN supernetsAtDepth(h, kid, pfx, depth + 1, pushed, y)
                    ELSE supernetsUnwind(h, pfx, pushed, depth, y)
               ELSE IF h[kid].prefix.bits <= pfx.bits /\ PrefixOverlaps(h[kid].prefix, pfx)
               THEN Bind(Yield(y, h[kid].prefix, h[kid].value),
                         LAMBDA r : IF ~r.ok THEN r
                                    ELSE supernetsUnwind(h, pfx, pushed, depth, r.y))
               ELSE supernetsUnwind(h, pfx, pushed, depth, y)

\* Supernets and EachLookupPrefix: [y, ok]
TableSupernets(h, tbl, pfx, stop) ==
  supernetsAtDepth(h, rootNodeByVersion(tbl, pfx.is4), pfx, 0, <<>>, NewYield(stop))

\* ------------------------------------------------------------------------
\* The golden reference table, gold_table_test.go: a map prefix -> value
\* ------------------------------------------------------------------------

EmptyGold == [p \in {} |-> Zero]

GoldInsert(g, pfx, val) == [p \in (DOMAIN g) \cup {pfx} |-> IF p = pfx THEN val ELSE g[p]]

GoldDelete(g, pfx) == [p \in (DOMAIN g) \ {pfx} |-> g[p]]

GoldGet(g, pfx) ==
  IF pfx \in DOMAIN g THEN [val |-> g[pfx], ok |-> TRUE] ELSE [val |-> Zero, ok |-> FALSE]

\* items of tb replace the items of ta with the same prefix
GoldUnion(ta, tb) ==
  [p \in (DOMAIN ta) \cup (DOMAIN tb) |-> IF p \in DOMAIN tb THEN tb[p] ELSE ta[p]]

GoldLookup(g, addr) ==
  LET matching == { p \in DOMAIN g : PrefixContains(p, addr) }
  IN  IF matching = {}
      THEN [val |-> Zero, ok |-> FALSE]
      ELSE [val |-> g[CHOOSE p \in matching : \A q \in matching : q.bits <= p.bits],
            ok |-> TRUE]

GoldOverlapsPrefix(g, pfx) == \E p \in DOMAIN g : PrefixOverlaps(p, pfx)

GoldOverlaps(ta, tb) == \E a \in DOMAIN ta : \E b \in DOMAIN tb : PrefixOverlaps(a, b)

GoldPairs(g) == { <<p, g[p]>> : p \in DOMAIN g }

\* ------------------------------------------------------------------------
\* The heap up to renaming of references
\* ------------------------------------------------------------------------

SeqRange(s) == { s[i] : i \in 1..Len(s) }

\* the objects reachable from the references in todo, in depth first order
RECURSIVE ReachOrder(_, _, _)
ReachOrder(h, todo, order) ==
  IF todo = <<>>
  THEN order
  ELSE LET id == Head(todo)
       IN  IF id \in SeqRange(order)
           THEN ReachOrder(h, Tail(todo), order)
           ELSE ReachOrder(h,
                           (IF h[id].kind = "node" THEN h[id].children.Items ELSE <<>>)
                             \o Tail(todo),
                           Append(order, id))

\* the objects of ids and the objects they reference
Referenced(h, ids) ==
  UNION { {id} \cup (IF h[id].kind = "node" THEN SeqRange(h[id].children.Items) ELSE {})
          : id \in ids }

\* the least set of objects that holds ids and what its members reference
RECURSIVE ReachSet(_, _)
ReachSet(h, ids) ==
  UNION { IF more = ids THEN ids ELSE ReachSet(h, more) : more \in {Referenced(h, ids)} }

\* the objects reachable from roots
Reach(h, roots) == ReachSet(h, SeqRange(roots))

Roots(tbl) == <<tbl.root4, tbl.root6>>

\* the references refs, each replaced by its position in order
RECURSIVE Renamed(_, _)
Renamed(refs, order) ==
  IF refs = <<>>
  THEN <<>>
  ELSE <<CHOOSE k \in 1..Len(order) : order[k] = Head(refs)>> \o Renamed(Tail(refs), order)

\* the objects of order from position k on, their references renamed
RECURSIVE Moved(_, _, _)
Moved(h, order, k) ==
  IF k > Len(order)
  THEN <<>>
  ELSE <<IF h[order[k]].kind = "node"
         THEN [h[order[k]] EXCEPT !.children.Items = Renamed(@, order)]
         ELSE h[order[k]]>>
         \o Moved(h, order, k + 1)

\* drops the unreachable objects and numbers the others in depth first order
Compact(h, tt, oo) ==
  LET order == ReachOrder(h, Roots(tt) \o Roots(oo), <<>>)
      tab(tbl) == [tbl EXCEPT !.root4 = Renamed(<<@>>, order)[1],
                              !.root6 = Renamed(<<@>>, order)[1]]
  IN  [h |-> Moved(h, order, 1), t |-> tab(tt), o |-> tab(oo)]

\* ------------------------------------------------------------------------
\* State
\* ------------------------------------------------------------------------

VARIABLES
  heap,      \* the nodes and leaves
  t,         \* the table the operations are called on
  o,         \* a second table: the Union and Overlaps operand, a clone, or
             \* the table InsertPersist was called on
  goldT,     \* the golden table of t
  goldO,     \* the golden table of o
  last,      \* the last operation and what it returned
  panicked   \* an operation ended in a panic

vars == <<heap, t, o, goldT, goldO, last, panicked>>

NoArg == [addr |-> <<>>, bits |-> 0, is4 |-> TRUE]

\* op: the operation; arg: the argument of a query and of InsertPersist;
\* val, ok: what it returned; frame: no object reachable from the table the
\* operation was not to change was touched
Last(op, arg, val, ok, frame) ==
  [arg |-> arg, frame |-> frame, ok |-> ok, op |-> op, val |-> val]

Init ==
  /\ heap = <<NewNode, NewNode, NewNode, NewNode>>
  /\ t = [root4 |-> 1, root6 |-> 2, size4 |-> 0, size6 |-> 0]
  /\ o = [root4 |-> 3, root6 |-> 4, size4 |-> 0, size6 |-> 0]
  /\ goldT = EmptyGold
  /\ goldO = EmptyGold
  /\ last = Last("none", NoArg, Zero, FALSE, TRUE)
  /\ panicked = FALSE

\* no object of the heap is reachable from both tables
Disjoint == Reach(heap, Roots(t)) \cap Reach(heap, Roots(o)) = {}

\* every object reachable from tbl in h is the same object in the heap after
FrameOf(h, tbl, after) == \A id \in Reach(h, Roots(tbl)) : after[id] = h[id]

\* the state after an operation that ended with heap h and the tables tt, oo
Done(h, tt, oo, lst, panic) ==
  \E c \in {Compact(h, tt, oo)} :
    /\ heap' = c.h
    /\ t' = c.t
    /\ o' = c.o
    /\ last' = lst
    /\ panicked' = panic

\* a query: nothing but its result changes
Answer(lst) ==
  /\ last' = lst
  /\ UNCHANGED <<heap, t, o, goldT, goldO, panicked>>

\* t.Insert(pfx, val)
Insert(pfx, val) ==
  /\ ~panicked
  /\ Size(t) < MaxSize \/ pfx \in DOMAIN goldT
  /\ \E r \in {TableInsert(heap, t, pfx, val)} :
       Done(r.h, r.tbl, o, Last("Insert", NoArg, Zero, r.exists, FrameOf(heap, o, r.h)),
            r.panic)
  /\ goldT' = GoldInsert(goldT, pfx, val)
  /\ UNCHANGED goldO

\* t.Delete(pfx)
Delete(pfx) ==
  /\ ~panicked
  /\ \E r \in {TableDelete(heap, t, pfx)} :
       Done(r.h, r.tbl, o, Last("Delete", NoArg, r.val, r.exists, FrameOf(heap, o, r.h)),
            r.panic)
  /\ goldT' = GoldDelete(goldT, pfx)
  /\ UNCHANGED goldO

\* t.Get(pfx)
GetPfx(pfx) ==
  /\ ~panicked
  /\ \E r \in {TableGet(heap, t, pfx)} : Answer(Last("Get", pfx, r.val, r.ok, TRUE))

\* t.Lookup(ip)
Lookup(ip) ==
  /\ ~panicked
  /\ \E r \in {TableLookup(heap, t, ip)} : Answer(Last("Lookup", ip, r.val, r.ok, TRUE))

\* t.OverlapsPrefix(pfx)
OverlapsPrefix(pfx) ==
  /\ ~panicked
  /\ \E r \in {TableOverlapsPrefix(heap, t, pfx)} :
       /\ last' = Last("OverlapsPrefix", pfx, Zero, r = "true", TRUE)
       /\ panicked' = (r = "panic")
       /\ UNCHANGED <<heap, t, o, goldT, goldO>>

\* o.Insert(pfx, val)
InsertO(pfx, val) ==
  /\ ~panicked
  /\ Size(o) < MaxOther \/ pfx \in DOMAIN goldO
  /\ \E r \in {TableInsert(heap, o, pfx, val)} :
       Done(r.h, t, r.tbl, Last("InsertO", NoArg, Zero, r.exists, FrameOf(heap, t, r.h)),
            r.panic)
  /\ goldO' = GoldInsert(goldO, pfx, val)
  /\ UNCHANGED goldT

\* o.Delete(pfx)
DeleteO(pfx) ==
  /\ ~panicked
  /\ \E r \in {TableDelete(heap, o, pfx)} :
       Done(r.h, t, r.tbl, Last("DeleteO", NoArg, r.val, r.exists, FrameOf(heap, t, r.h)),
            r.panic)
  /\ goldO' = GoldDelete(goldO, pfx)
  /\ UNCHANGED goldT

\* o = t.Clone()
Clone ==
  /\ ~panicked
  /\ Size(t) <= MaxOther
  /\ \E r \in {TableClone(heap, t)} :
       Done(r.h, t, r.tbl, Last("Clone", NoArg, Zero, FALSE, FrameOf(heap, t, r.h)), FALSE)
  /\ goldO' = goldT
  /\ UNCHANGED goldT

\* t.Union(o)
Union ==
  /\ ~panicked
  /\ Cardinality(DOMAIN goldT \cup DOMAIN goldO) <= MaxSize
  /\ \E r \in {TableUnion(heap, t, o)} :
       Done(r.h, r.tbl, o, Last("Union", NoArg, Zero, FALSE, FrameOf(heap, o, r.h)), r.panic)
  /\ goldT' = GoldUnion(goldT, goldO)
  /\ UNCHANGED goldO

\* o.Union(t)
UnionO ==
  /\ ~panicked
  /\ Cardinality(DOMAIN goldT \cup DOMAIN goldO) <= MaxOther
  /\ \E r \in {TableUnion(heap, o, t)} :
       Done(r.h, t, r.tbl, Last("UnionO", NoArg, Zero, FALSE, FrameOf(heap, t, r.h)), r.panic)
  /\ goldO' = GoldUnion(goldO, goldT)
  /\ UNCHANGED goldT

\* t.Overlaps(o)
Overlaps ==
  /\ ~panicked
  /\ \E r \in {TableOverlaps(heap, t, o)} :
       /\ last' = Last("Overlaps", NoArg, Zero, r = "true", TRUE)
       /\ panicked' = (r = "panic")
       /\ UNCHANGED <<heap, t, o, goldT, goldO>>

\* t, o = t.InsertPersist(pfx, val), t: the caller goes on with the returned
\* table and keeps the one it called as o
InsertPersist(pfx, val) ==
  /\ ~panicked
  /\ Size(t) < MaxSize \/ pfx \in DOMAIN goldT
  /\ \E r \in {TableInsertPersist(heap, t, pfx, val)} :
       Done(r.h, r.tbl, t, Last("InsertPersist", pfx, val, r.exists, FrameOf(heap, t, r.h)),
            r.panic)
  /\ goldT' = GoldInsert(goldT, pfx, val)
  /\ goldO' = goldT

\* ------------------------------------------------------------------------
\* The specifications
\* ------------------------------------------------------------------------

\* one table: Insert, Delete and Get
Next ==
  \/ \E pfx \in PfxUniverse : \E val \in Values : Insert(pfx, val)
  \/ \E pfx \in PfxUniverse : Delete(pfx)
  \/ \E pfx \in PfxUniverse : GetPfx(pfx)

Spec == Init /\ [][Next]_vars

\* one table: Insert, Delete and Lookup
NextLookup ==
  \/ \E pfx \in PfxUniverse : \E val \in Values : Insert(pfx, val)
  \/ \E pfx \in PfxUniverse : Delete(pfx)
  \/ \E ip \in AddrUniverse : Lookup(ip)

SpecLookup == Init /\ [][NextLookup]_vars

\* one table: Insert, Delete and OverlapsPrefix
NextOverlapsPrefix ==
  \/ \E pfx \in PfxUniverse : \E val \in Values : Insert(pfx, val)
  \/ \E pfx \in PfxUniverse : Delete(pfx)
  \/ \E pfx \in QueryUniverse : OverlapsPrefix(pfx)

SpecOverlapsPrefix == Init /\ [][NextOverlapsPrefix]_vars

\* two tables grown by Insert, and Overlaps
NextOverlaps ==
  \/ \E pfx \in PfxUniverse : Insert(pfx, 1)
  \/ \E pfx \in PfxUniverse : InsertO(pfx, 2)
  \/ Overlaps

SpecOverlaps == Init /\ [][NextOverlaps]_vars

\* two tables grown by Insert, Clone, and Union
NextUnion ==
  \/ \E pfx \in PfxTwo : Insert(pfx, 1)
  \/ \E pfx \in PfxTwo : InsertO(pfx, 2)
  \/ Clone
  \/ Union

SpecUnion == Init /\ [][NextUnion]_vars

\* a table and its clone: Insert, Delete and Union on either
NextClone ==
  \/ \E pfx \in PfxClone : Insert(pfx, 1)
  \/ \E pfx \in PfxClone : Delete(pfx)
  \/ \E pfx \in PfxClone : InsertO(pfx, 2)
  \/ \E pfx \in PfxClone : DeleteO(pfx)
  \/ Clone
  \/ Union
  \/ UnionO

SpecClone == Init /\ [][NextClone]_vars

\* a table grown by InsertPersist alone
NextPersist == \E pfx \in PfxUniverse : \E val \in Values : InsertPersist(pfx, val)

SpecPersist == Init /\ [][NextPersist]_vars

\* ------------------------------------------------------------------------
\* The iterators as operations, and the golden table's enumerations
\* ------------------------------------------------------------------------

\* the largest number of the yield call that returns false
MaxStop == 2

\* the numbers yield is told to return false at, 0 is never
Stops == 0..MaxStop

\* The prefixes of the iterated tables. In the root 0.0.0.0/1, 128.0.0.0/1 and
\* 0.0.0.0/2 are the prefixes idx 2, 3 and 4, whose CIDR order is 2, 4, 3, and
\* the child at 10 lies between them; below it there are leaves, fringes and
\* the prefix idx 64 of a node at depth 3.
IterPrefixes ==
  { Pfx4(0, 0, 0, 0, 1), Pfx4(128, 0, 0, 0, 1), Pfx4(0, 0, 0, 0, 2),
    Pfx4(10, 0, 0, 0, 8), Pfx4(10, 0, 0, 0, 24), Pfx4(10, 0, 1, 0, 24),
    Pfx4(10, 0, 0, 0, 30), Pfx4(10, 0, 0, 1, 32), Pfx4(10, 0, 0, 2, 32),
    Pfx6(0, 32) }

\* The prefixes whose subnets and supernets are enumerated: above, at and
\* below the stored prefixes.
IterQueries ==
  { Pfx4(0, 0, 0, 0, 0), Pfx4(0, 0, 0, 0, 1), Pfx4(10, 0, 0, 0, 7), Pfx4(10, 0, 0, 0, 8),
    Pfx4(10, 0, 0, 0, 24), Pfx4(10, 0, 0, 0, 30), Pfx4(10, 0, 0, 0, 31), Pfx4(10, 0, 0, 1, 32),
    Pfx6(0, 32), Pfx6(1, 128) }

\* netip.Addr.Compare(a, b) < 0 for the octets of two addresses of one family
RECURSIVE OctetsLess(_, _)
OctetsLess(a, b) ==
  IF a = <<>> THEN FALSE
  ELSE IF Head(a) # Head(b) THEN Head(a) < Head(b)
  ELSE OctetsLess(Tail(a), Tail(b))

\* lessPrefix: by address, v4 before v6, then by prefix length
lessPrefix(a, b) ==
  IF a.is4 # b.is4 THEN a.is4
  ELSE IF a.addr # b.addr THEN OctetsLess(a.addr, b.addr)
  ELSE a.bits < b.bits

\* the prefixes of S in CIDR sort order
RECURSIVE SortedPrefixes(_)
SortedPrefixes(S) ==
  IF S = {}
  THEN <<>>
  ELSE LET least == CHOOSE a \in S : \A b \in S \ {a} : lessPrefix(a, b)
       IN  <<least>> \o SortedPrefixes(S \ {least})

RECURSIVE Reversed(_)
Reversed(s) == IF s = <<>> THEN <<>> ELSE Reversed(Tail(s)) \o <<Head(s)>>

GoldSubnets(g, pfx) ==
  SortedPrefixes({ p \in DOMAIN g : PrefixOverlaps(pfx, p) /\ pfx.bits <= p.bits })

GoldSupernets(g, pfx) ==
  Reversed(SortedPrefixes({ p \in DOMAIN g : PrefixOverlaps(p, pfx) /\ p.bits <= pfx.bits }))

\* the prefixes of a sequence of yielded pairs
RECURSIVE PrefixesOf(_)
PrefixesOf(out) == IF out = <<>> THEN <<>> ELSE <<Head(out)[1]>> \o PrefixesOf(Tail(out))

\* the prefixes pfxs with their values in g
RECURSIVE WithValues(_, _)
WithValues(g, pfxs) ==
  IF pfxs = <<>> THEN <<>> ELSE <<<<Head(pfxs), g[Head(pfxs)]>>>> \o WithValues(g, Tail(pfxs))

\* the argument of an iteration: the prefix, and when yield returns false
IterArg(pfx, stop) == [pfx |-> pfx, stop |-> stop]

\* t.All(yield)
All(stop) ==
  /\ ~panicked
  /\ \E r \in {TableAllYield(heap, t, stop)} :
       Answer(Last("All", IterArg(NoArg, stop), r.y.out, r.ok, TRUE))

\* t.AllSorted(yield)
AllSorted(stop) ==
  /\ ~panicked
  /\ \E r \in {TableAllSorted(heap, t, stop)} :
       Answer(Last("AllSorted", IterArg(NoArg, stop), r.y.out, r.ok, TRUE))

\* t.Subnets(pfx), t.EachSubnet(pfx, yield)
Subnets(pfx, stop) ==
  /\ ~panicked
  /\ \E r \in {TableSubnets(heap, t, pfx, stop)} :
       Answer(Last("Subnets", IterArg(pfx, stop), r.y.out, r.ok, TRUE))

\* t.Supernets(pfx)
Supernets(pfx) ==
  /\ ~panicked
  /\ \E r \in {TableSupernets(heap, t, pfx, 0)} :
       Answer(Last("Supernets", IterArg(pfx, 0), r.y.out, r.ok, TRUE))

\* t.EachLookupPrefix(pfx, yield)
EachLookupPrefix(pfx, stop) ==
  /\ ~panicked
  /\ \E r \in {TableSupernets(heap, t, pfx, stop)} :
       Answer(Last("EachLookupPrefix", IterArg(pfx, stop), r.y.out, r.ok, TRUE))

\* the operations that change the table
Mutators == {"none", "Insert", "Delete"}

\* a table grown and shrunk by Insert and Delete, and iterated over; an
\* iteration changes nothing, so the run goes on from the table before it
NextIter ==
  /\ last.op \in Mutators
  /\ \/ \E pfx \in IterPrefixes : \E val \in Values : Insert(pfx, val)
     \/ \E pfx \in IterPrefixes : Delete(pfx)
     \/ \E stop \in Stops : All(stop)
     \/ \E stop \in Stops : AllSorted(stop)
     \/ \E pfx \in IterQueries : \E stop \in Stops : Subnets(pfx, stop)
     \/ \E pfx \in IterQueries : Supernets(pfx)
     \/ \E pfx \in IterQueries : \E stop \in Stops : EachLookupPrefix(pfx, stop)

SpecIter == Init /\ [][NextIter]_vars


\* ------------------------------------------------------------------------
\* The base index mapping, called with every stride prefix and every octet
\* ------------------------------------------------------------------------

\* <<octet, prefixLen>>: the prefixes of one stride, the bits of the octet
\* below the prefix length zero
StridePrefixes ==
  { p \in (0..255) \X (0..strideLen) : p[1] % (2 ^ (strideLen - p[2])) = 0 }

\* prefixToBaseIndex(octet, prefixLen)
PrefixToBaseIndex(octet, prefixLen) ==
  /\ last' = Last("prefixToBaseIndex", <<octet, prefixLen>>,
                  prefixToBaseIndex(octet, prefixLen), TRUE, TRUE)
  /\ UNCHANGED <<heap, t, o, goldT, goldO, panicked>>

\* octetToBaseIndex(octet)
OctetToBaseIndex(octet) ==
  /\ last' = Last("octetToBaseIndex", <<octet, strideLen>>, octetToBaseIndex(octet), TRUE, TRUE)
  /\ UNCHANGED <<heap, t, o, goldT, goldO, panicked>>

\* baseIndexToPrefix of the index the last call returned; arg is what that
\* index was made of
BaseIndexToPrefix ==
  /\ last.op \in {"prefixToBaseIndex", "octetToBaseIndex"}
  /\ last' = Last("baseIndexToPrefix", last.arg, baseIndexToPrefix(last.val), TRUE, TRUE)
  /\ UNCHANGED <<heap, t, o, goldT, goldO, panicked>>

NextBaseIndex ==
  \/ \E p \in StridePrefixes : PrefixToBaseIndex(p[1], p[2])
  \/ \E octet \in 0..255 : OctetToBaseIndex(octet)
  \/ BaseIndexToPrefix

SpecBaseIndex == Init /\ [][NextBaseIndex]_vars

\* ------------------------------------------------------------------------
\* One sparse array, the prefixes of the node heap[1]; goldT maps the set
\* slots to their items
\* ------------------------------------------------------------------------

\* the slots of the array that are written and read
Slots == {0, 1, 63, 64, 255}

TheArray == heap[1].prefixes

\* the number of set bits below i
RankBelow(s, i) == Cardinality({ j \in s.BitSet : j < i })

Stored(g, i, val) == [j \in DOMAIN g \cup {i} |-> IF j = i THEN val ELSE g[j]]

Removed(g, i) == [j \in DOMAIN g \ {i} |-> g[j]]

ArrayStep(arr, lst) ==
  /\ heap' = [heap EXCEPT ![1].prefixes = arr]
  /\ last' = lst
  /\ UNCHANGED <<t, o, goldO, panicked>>

ArrayInsertAt(i, val) ==
  /\ \E r \in {InsertAt(TheArray, i, val)} :
       ArrayStep(r.arr, Last("InsertAt", i, val, r.exists, TRUE))
  /\ goldT' = Stored(goldT, i, val)

ArrayDeleteAt(i) ==
  /\ \E r \in {DeleteAt(TheArray, i)} :
       ArrayStep(r.arr, Last("DeleteAt", i, r.val, r.exists, TRUE))
  /\ goldT' = Removed(goldT, i)

ArrayUpdateAt(i, cb) ==
  /\ \E r \in {UpdateAt(TheArray, i, cb)} :
       ArrayStep(r.arr, Last("UpdateAt", i, r.newVal, r.wasPresent, TRUE))
  /\ goldT' = Stored(goldT, i, Callback(cb, IF i \in DOMAIN goldT THEN goldT[i] ELSE Zero,
                                        i \in DOMAIN goldT))

ArrayGet(i) ==
  \E r \in {Get(TheArray, i)} : Answer(Last("ArrayGet", i, r.val, r.ok, TRUE))

NextArray ==
  \/ \E i \in Slots : \E val \in Values : ArrayInsertAt(i, val)
  \/ \E i \in Slots : ArrayDeleteAt(i)
  \/ \E i \in Slots : \E cb \in UpdateCallbacks : ArrayUpdateAt(i, cb)
  \/ \E i \in Slots : ArrayGet(i)

SpecArray == Init /\ [][NextArray]_vars

\* ------------------------------------------------------------------------
\* One node, heap[1], and a second one, heap[3]: their prefixes are written
\* with prefixes.InsertAt and prefixes.DeleteAt, and the children of the
\* second one with children.InsertAt; goldT and goldO map the base indices
\* set in the two nodes to their values
\* ------------------------------------------------------------------------

\* The base indices written: 0/0, 0/1, 64/2, 64/3, 80/4 and 10/7.
StrideIndices == {1, 2, 5, 10, 21, 133}

\* The octets looked up: inside and outside these prefixes.
StrideOctets == {0, 10, 11, 12, 63, 64, 80, 95, 96, 127, 128, 255}

\* the stride prefix of base index idx contains the octet
StrideContains(idx, octet) ==
  LET p == baseIndexToPrefix(idx)
  IN  Shr(octet, strideLen - p[2]) = Shr(p[1], strideLen - p[2])

\* goldStrideTbl.lpm: <<idx, val, ok>> of the longest stored prefix that
\* contains the octet
GoldStrideLpm(g, octet) ==
  LET hits == { i \in DOMAIN g : StrideContains(i, octet) }
  IN  IF hits = {} THEN <<0, Zero, FALSE>>
      ELSE LET best == CHOOSE i \in hits :
                         \A j \in hits : baseIndexToPrefix(j)[2] <= baseIndexToPrefix(i)[2]
           IN  <<best, g[best], TRUE>>

\* n.lpmGet(art.HostIdx(octet))
LpmGet(octet) ==
  \E r \in {lpmGet(heap, 1, octetToBaseIndex(octet))} :
    Answer(Last("lpmGet", octet, <<r[1], r[2]>>, r[3], TRUE))

\* n.lpmTest(art.HostIdx(octet))
LpmTest(octet) ==
  \E r \in {lpmTest(heap, 1, octetToBaseIndex(octet))} :
    Answer(Last("lpmTest", octet, Zero, r, TRUE))

\* the calls that write a node
Writers == {"none", "InsertAt", "DeleteAt", "InsertAtO", "FillChildren"}

NextLpm ==
  /\ last.op \in Writers
  /\ \/ \E i \in StrideIndices : \E val \in Values :
          (ArrLen(heap[1].prefixes) < MaxSize \/ i \in DOMAIN goldT) /\ ArrayInsertAt(i, val)
     \/ \E i \in StrideIndices : ArrayDeleteAt(i)
     \/ \E octet \in StrideOctets : LpmGet(octet)
     \/ \E octet \in StrideOctets : LpmTest(octet)

SpecLpm == Init /\ [][NextLpm]_vars

\* o.prefixes.InsertAt(i, val) on the second node
ArrayInsertAtO(i, val) ==
  /\ \E r \in {InsertAt(heap[3].prefixes, i, val)} :
       /\ heap' = [heap EXCEPT ![3].prefixes = r.arr]
       /\ last' = Last("InsertAtO", i, val, r.exists, TRUE)
  /\ goldO' = Stored(goldO, i, val)
  /\ UNCHANGED <<t, o, goldT, panicked>>

\* n.overlaps(o, 0)
NodeOverlaps ==
  \E r \in {overlaps(heap, 1, 3, 0)} :
    Answer(Last("overlaps", NoArg, Zero, r = "true", TRUE))

\* the stride prefixes of two base indices overlap: one index is the other
\* one shifted right
StrideOverlaps(a, b) == \E k \in 0..strideLen : a = Shr(b, k) \/ b = Shr(a, k)

NextRoutes ==
  /\ last.op \in Writers
  /\ \/ \E i \in StrideIndices :
          ArrLen(heap[1].prefixes) < MaxSize /\ ArrayInsertAt(i, 1)
     \/ \E i \in StrideIndices :
          ArrLen(heap[3].prefixes) < MaxSize /\ ArrayInsertAtO(i, 2)
     \/ NodeOverlaps

SpecRoutes == Init /\ [][NextRoutes]_vars

\* children.InsertAt(addr, fringe) for count addresses from first
RECURSIVE fillChildren(_, _, _, _)
fillChildren(h, n, first, count) ==
  IF count = 0 THEN h
  ELSE LET a == Alloc(h, NewLeaf(Pfx4(first, 0, 0, 0, strideLen), 2, TRUE))
           kids == InsertAt(a.h[n].children, first, a.id).arr
       IN  fillChildren([a.h EXCEPT ![n].children = kids], n, first + 1, count - 1)

\* the numbers of children written at once: below and above magicNumber
ChildCounts == {1, 2, magicNumber - 1, magicNumber, magicNumber + 1}

\* the first child address
ChildFirsts == {0, 11, 64, 96, 128}

\* the second node gets count children, from the address first
FillChildren(first, count) ==
  /\ ArrLen(heap[3].children) = 0
  /\ heap' = fillChildren(heap, 3, first, count)
  /\ last' = Last("FillChildren", first, count, TRUE, TRUE)
  /\ UNCHANGED <<t, o, goldT, goldO, panicked>>

\* n.overlapsChildrenIn(o)
OverlapsChildrenIn ==
  \E r \in {overlapsChildrenIn(heap, 1, 3)} :
    Answer(Last("overlapsChildrenIn", NoArg, Zero, r, TRUE))

NextChildrenIn ==
  /\ last.op \in Writers
  /\ \/ \E i \in StrideIndices : ArrayInsertAt(i, 1)
     \/ \E first \in ChildFirsts : \E count \in ChildCounts : FillChildren(first, count)
     \/ OverlapsChildrenIn

SpecChildrenIn == Init /\ [][NextChildrenIn]_vars

\* ------------------------------------------------------------------------
\* The shape of the trie under Insert, InsertPersist, Delete and Union
\* ------------------------------------------------------------------------

\* The prefixes of the shape runs: 10.0.0.0/8 is a fringe of the root or the
\* prefix idx 1 of the node below it, 10.0.0.0/16 a leaf of the root, a
\* fringe at depth 1 or a prefix at depth 2, the host route a leaf at the
\* depths 0 to 2 or a fringe at depth 3, and the two v6 prefixes push each
\* other down to the depths 4 and 5.
PfxShape ==
  { Pfx4(10, 0, 0, 0, 8), Pfx4(10, 0, 0, 0, 16), Pfx4(10, 0, 0, 1, 32),
    Pfx6(0, 32), Pfx6(0, 40) }

\* t = t.InsertPersist(pfx, val): the caller goes on with the returned table
\* and drops the one it called
InsertPersistT(pfx, val) ==
  /\ ~panicked
  /\ Size(t) < MaxSize \/ pfx \in DOMAIN goldT
  /\ \E r \in {TableInsertPersist(heap, t, pfx, val)} :
       Done(r.h, r.tbl, o, Last("InsertPersist", pfx, val, r.exists, FrameOf(heap, o, r.h)),
            r.panic)
  /\ goldT' = GoldInsert(goldT, pfx, val)
  /\ UNCHANGED goldO

\* a table changed by Insert, InsertPersist, Delete and Union with a second
\* table that is built by Insert
NextShape ==
  \/ \E pfx \in PfxShape : Insert(pfx, 1)
  \/ \E pfx \in PfxShape : InsertPersistT(pfx, 1)
  \/ \E pfx \in PfxShape : Delete(pfx)
  \/ \E pfx \in PfxShape : InsertO(pfx, 2)
  \/ Union

SpecShape == Init /\ [][NextShape]_vars
\* ------------------------------------------------------------------------
\* What a caller can observe of a table
\* ------------------------------------------------------------------------

\* the stored pairs of a table, each once
StoredOnce(h, tbl, g) ==
  /\ SeqRange(TableAll(h, tbl)) = GoldPairs(g)
  /\ Len(TableAll(h, tbl)) = Cardinality(DOMAIN g)

\* the results of All, Size, Get of the prefixes pfxs and Lookup of the addresses ips
Observed(h, tbl, pfxs, ips) ==
  << TableAll(h, tbl), tbl.size4, tbl.size6,
     { <<p, TableGet(h, tbl, p)>> : p \in pfxs },
     { <<a, TableLookup(h, tbl, a)>> : a \in ips } >>

\* the addresses looked up in a table and its clone: in and beside the
\* prefixes of PfxClone
AddrClone ==
  { Addr4(10, 0, 0, 1), Addr4(10, 0, 0, 2), Addr4(11, 0, 0, 0), Addr6(1),
    [addr |-> <<48, 0, 0, 0, 0, 0, 0, 0, 0, 0, 0, 0, 0, 0, 0, 0>>, is4 |-> FALSE] }

\* some node holds a prefix, some leaf is path compressed, some leaf is a fringe
AllForms(h, tbl) ==
  /\ \E id \in Reach(h, Roots(tbl)) : h[id].kind = "node" /\ ArrLen(h[id].prefixes) > 0
  /\ \E id \in Reach(h, Roots(tbl)) : h[id].kind = "leaf" /\ ~h[id].fringe
  /\ \E id \in Reach(h, Roots(tbl)) : h[id].kind = "leaf" /\ h[id].fringe

\* both tables hold what their golden tables hold, and nothing panicked
TypeOK == StoredOnce(heap, t, goldT) /\ StoredOnce(heap, o, goldO) /\ ~panicked

\* ------------------------------------------------------------------------
\* The claims
\* ------------------------------------------------------------------------

\* C1: Lookup(a) returns the value of the longest stored prefix that contains
\* a, and (zero, false) when no stored prefix contains a, whether the match
\* is a node prefix, a path compressed leaf or a fringe.
C1_LookupIsLongestMatch ==
  last.op = "Lookup" =>
    [val |-> last.val, ok |-> last.ok] = GoldLookup(goldT, last.arg)

\* a Lookup that found a match in a table with all three storage forms
C1_Witness == last.op = "Lookup" /\ last.ok /\ AllForms(heap, t)

\* C2: after Insert(p, v), Get(p) = (v, true) and existed tells whether p was
\* stored before; after Delete(p), Get(p) = (_, false); neither changes what
\* Get returns for another stored prefix; and Get answers what is stored.
C2_InsertGetDelete ==
  [][/\ \A p \in PfxUniverse :
          /\ (/\ last'.op = "Insert"
              /\ p \in DOMAIN goldT'
              /\ goldT' = GoldInsert(goldT, p, goldT'[p]))
               => /\ last'.ok = (p \in DOMAIN goldT)
                  /\ TableGet(heap', t', p) = [val |-> goldT'[p], ok |-> TRUE]
                  /\ \A q \in (DOMAIN goldT) \ {p} :
                       TableGet(heap', t', q) = TableGet(heap, t, q)
          /\ (last'.op = "Delete" /\ goldT' = GoldDelete(goldT, p))
               => /\ last'.ok = (p \in DOMAIN goldT)
                  /\ ~TableGet(heap', t', p).ok
                  /\ \A q \in (DOMAIN goldT) \ {p} :
                       TableGet(heap', t', q) = TableGet(heap, t, q)
     /\ last'.op = "Get" =>
          [val |-> last'.val, ok |-> last'.ok] = GoldGet(goldT', last'.arg)
    ]_vars

\* an Insert that overwrote a stored prefix in a table with all three storage forms
C2_Witness == last.op = "Insert" /\ last.ok /\ AllForms(heap, t)

\* C3: the size counter of each family is the number of prefixes of that
\* family stored in the trie, each stored once, which is the number of
\* prefixes inserted and not deleted since.
C3_SizeCounts ==
  LET all == TableAll(heap, t)
  IN  /\ t.size4 = Cardinality({ k \in 1..Len(all) : all[k][1].is4 })
      /\ t.size6 = Cardinality({ k \in 1..Len(all) : ~all[k][1].is4 })
      /\ Len(all) = Cardinality({ all[k][1] : k \in 1..Len(all) })
      /\ t.size4 = Cardinality({ p \in DOMAIN goldT : p.is4 })
      /\ t.size6 = Cardinality({ p \in DOMAIN goldT : ~p.is4 })

\* a Delete that removed a prefix and left two, one of each family
C3_Witness == last.op = "Delete" /\ last.ok /\ t.size4 = 1 /\ t.size6 = 1

\* C4: t.Overlaps(o) is true exactly when some prefix stored in t and some
\* prefix stored in o overlap.
C4_OverlapsIffPair ==
  last.op = "Overlaps" => ~panicked /\ last.ok = GoldOverlaps(goldT, goldO)

\* Overlaps answered true for two tables of two and more prefixes each
C4_Witness == last.op = "Overlaps" /\ last.ok /\ Size(t) >= 2 /\ Size(o) >= 2

\* C5: OverlapsPrefix(q) is true exactly when some stored prefix overlaps q.
C5_OverlapsPrefixIffSome ==
  last.op = "OverlapsPrefix" =>
    ~panicked /\ last.ok = GoldOverlapsPrefix(goldT, last.arg)

\* OverlapsPrefix answered true for a prefix that is not stored, in a table
\* with all three storage forms
C5_Witness ==
  /\ last.op = "OverlapsPrefix"
  /\ last.ok
  /\ last.arg \notin DOMAIN goldT
  /\ AllForms(heap, t)

\* C6: after t.Union(o), t stores exactly the prefixes of both, those of o
\* with o's value and the others with the value they had.
C6_UnionPairs == last.op = "Union" => ~panicked /\ StoredOnce(heap, t, goldT)

\* C7: t.Union(o), with o holding the pairs that t holds, completes normally
\* and leaves t with the same pairs and the same size counters.
C7_UnionIdempotent ==
  [][(last'.op = "Union" /\ goldO = goldT) =>
       /\ ~panicked'
       /\ StoredOnce(heap', t', goldT)
       /\ t'.size4 = t.size4
       /\ t'.size6 = t.size6
    ]_vars

\* C8: the table returned by InsertPersist(pfx, v) has Get(pfx) = (v, true).
C8_PersistGet ==
  last.op = "InsertPersist" =>
    TableGet(heap, t, last.arg) = [val |-> last.val, ok |-> TRUE]

\* C9: InsertPersist changes no object reachable from the table it is called
\* on, and that table's All, Size, Get and Lookup results stay as they were.
C9_PersistFrame ==
  [][last'.op = "InsertPersist" =>
       /\ last'.frame
       /\ Observed(heap', o', PfxUniverse, AddrUniverse) = Observed(heap, t, PfxUniverse, AddrUniverse)
    ]_vars

\* an InsertPersist on a table of two prefixes whose result shares objects with it
C9_Witness == last.op = "InsertPersist" /\ Size(o) = 2 /\ ~Disjoint

\* C10: a clone holds the pairs of the table it was made from and shares no
\* object with it: Insert, Delete and Union on either leave the All, Get and
\* Lookup results of the other as they were.
C10_CloneIndependent ==
  [][/\ last'.op = "Clone" =>
          /\ TableAll(heap', o') = TableAll(heap', t')
          /\ Observed(heap', t', PfxClone, AddrClone) = Observed(heap, t, PfxClone, AddrClone)
     /\ Disjoint'
     /\ last'.op \in {"Insert", "Delete", "Union"} =>
          last'.frame /\ Observed(heap', o', PfxClone, AddrClone) = Observed(heap, o, PfxClone, AddrClone)
     /\ last'.op \in {"InsertO", "DeleteO", "UnionO"} =>
          last'.frame /\ Observed(heap', t', PfxClone, AddrClone) = Observed(heap, t, PfxClone, AddrClone)
    ]_vars

\* a Union that grew the table to three prefixes and left its operand of two
\* as it was
C10_Witness ==
  /\ last.op = "Union"
  /\ last.frame
  /\ ~panicked
  /\ Size(o) = 2
  /\ Size(t) = 3

\* the pairs out hold no pair twice
NoDuplicates(out) == Cardinality(SeqRange(out)) = Len(out)

\* C12: Subnets(q) yields the stored prefixes that q covers, each once, in
\* CIDR sort order, with their values.
C12_SubnetsCovered ==
  (last.op = "Subnets" /\ last.arg.stop = 0) =>
    /\ last.ok
    /\ last.val = WithValues(goldT, GoldSubnets(goldT, last.arg.pfx))

\* Subnets yielded three prefixes of a trie with a node below the root
C12_Witness ==
  /\ last.op = "Subnets"
  /\ last.arg.stop = 0
  /\ Len(last.val) = 3
  /\ ArrLen(heap[t.root4].prefixes) > 0
  /\ \E id \in Reach(heap, Roots(t)) \ SeqRange(Roots(t)) : heap[id].kind = "node"

\* C13 as stated: Supernets(q) yields the stored prefixes that cover q, each
\* once, in CIDR sort order.
C13_SupernetsCidrOrder ==
  last.op = "Supernets" =>
    PrefixesOf(last.val) = Reversed(GoldSupernets(goldT, last.arg.pfx))

\* C13: Supernets(q) yields the stored prefixes that cover q, each once, with
\* their values, in reverse CIDR sort order: from the longest to the shortest.
C13_SupernetsReverseOrder ==
  last.op = "Supernets" =>
    /\ last.ok
    /\ last.val = WithValues(goldT, GoldSupernets(goldT, last.arg.pfx))

\* Supernets yielded three prefixes: a leaf and two prefixes of one node or
\* of two nodes
C13_Witness == last.op = "Supernets" /\ Len(last.val) = 3

\* C14: AllSorted yields every stored prefix once, and of two prefixes
\* yielded one after the other the first is the lesser in CIDR sort order.
C14_AllSortedOrder ==
  (last.op = "AllSorted" /\ last.arg.stop = 0) =>
    /\ last.ok
    /\ SeqRange(last.val) = GoldPairs(goldT)
    /\ Len(last.val) = Cardinality(DOMAIN goldT)
    /\ \A k \in 1..(Len(last.val) - 1) : lessPrefix(last.val[k][1], last.val[k + 1][1])

\* AllSorted yielded three prefixes of a trie that holds a node prefix, a
\* path compressed leaf and a fringe
C14_Witness ==
  /\ last.op = "AllSorted"
  /\ last.arg.stop = 0
  /\ Len(last.val) = 3
  /\ AllForms(heap, t)

\* C15: EachLookupPrefix(q, yield) yields the stored prefixes that cover q
\* from the longest to the shortest; the yield that returns false is the
\* last one called, and false is what the iteration returns then.
C15_EachLookupPrefixStops ==
  last.op = "EachLookupPrefix" =>
    LET full == WithValues(goldT, GoldSupernets(goldT, last.arg.pfx))
        stop == last.arg.stop
    IN  IF stop = 0 \/ stop > Len(full)
        THEN last.ok /\ last.val = full
        ELSE ~last.ok /\ last.val = SubSeq(full, 1, stop)

\* EachLookupPrefix was stopped at the second of three covering prefixes
C15_Witness ==
  /\ last.op = "EachLookupPrefix"
  /\ last.arg.stop = 2
  /\ ~last.ok
  /\ Len(GoldSupernets(goldT, last.arg.pfx)) = 3

\* the pairs an iteration is to yield
Covered(op, pfx) ==
  IF op = "Subnets" THEN SeqRange(WithValues(goldT, GoldSubnets(goldT, pfx)))
  ELSE IF op = "EachLookupPrefix" THEN SeqRange(WithValues(goldT, GoldSupernets(goldT, pfx)))
  ELSE GoldPairs(goldT)

\* C16: All, AllSorted, EachSubnet and EachLookupPrefix call yield once for
\* each entry they cover and return true when yield never returns false; the
\* yield that returns false is the last one called, and the iterator returns
\* false then.
C16_YieldOnceAndStop ==
  last.op \in {"All", "AllSorted", "Subnets", "EachLookupPrefix"} =>
    LET want == Covered(last.op, last.arg.pfx)
        stop == last.arg.stop
    IN  /\ NoDuplicates(last.val)
        /\ SeqRange(last.val) \subseteq want
        /\ IF stop = 0 \/ stop > Cardinality(want)
           THEN last.ok /\ Len(last.val) = Cardinality(want)
           ELSE ~last.ok /\ Len(last.val) = stop

\* All was stopped at the first of the three pairs of a trie with a node
\* below the root
C16_Witness ==
  /\ last.op = "All"
  /\ last.arg.stop = 1
  /\ ~last.ok
  /\ Size(t) = 3
  /\ \E id \in Reach(heap, Roots(t)) \ SeqRange(Roots(t)) : heap[id].kind = "node"

\* the nodes below the roots are compressed: none is empty, none holds one
\* prefix and no child, none holds no prefix and one child that is a leaf
Compressed(h, tbl) ==
  \A id \in Reach(h, Roots(tbl)) \ SeqRange(Roots(tbl)) :
    h[id].kind = "node" =>
      /\ ~isEmpty(h, id)
      /\ ~(ArrLen(h[id].prefixes) = 1 /\ ArrLen(h[id].children) = 0)
      /\ ~(/\ ArrLen(h[id].prefixes) = 0
           /\ ArrLen(h[id].children) = 1
           /\ h[h[id].children.Items[1]].kind = "leaf")

\* C11: after every completed Insert, Delete, InsertPersist and Union every
\* node below the roots of both tries is non-empty, is not a node with one
\* prefix and no children, and is not a node with no prefixes and one child
\* that is a leaf or fringe.
C11_Compressed ==
  ~panicked => Compressed(heap, t) /\ Compressed(heap, o)

\* C17: when every prefix that was inserted has been deleted again, in any
\* order, Size() is 0 and both roots are empty: no prefix, no child, and no
\* node or leaf left below them.
C17_EmptyAfterDeletes ==
  (DOMAIN goldT = {}) =>
    /\ Size(t) = 0
    /\ t.size4 = 0 /\ t.size6 = 0
    /\ isEmpty(heap, t.root4) /\ isEmpty(heap, t.root6)
    /\ Reach(heap, Roots(t)) = SeqRange(Roots(t))

\* the Delete that removed the last stored prefix
C17_Witness ==
  /\ last.op = "Delete"
  /\ last.ok
  /\ DOMAIN goldT = {}
  /\ Size(t) = 0

\* C18: a Delete of a prefix that is not stored returns existed = false and
\* the zero value, and leaves the trie, the stored pairs and the size
\* counters as they were.
C18_DeleteAbsent ==
  [][(last'.op = "Delete" /\ goldT' = goldT) =>
       /\ ~last'.ok
       /\ last'.val = Zero
       /\ heap' = heap
       /\ t' = t
       /\ StoredOnce(heap', t', goldT)
    ]_vars

\* a Delete that found nothing in a table that holds two prefixes, one of
\* them in a path compressed leaf
C18_Witness ==
  /\ last.op = "Delete"
  /\ ~last.ok
  /\ Size(t) = 2
  /\ \E id \in Reach(heap, Roots(t)) : heap[id].kind = "leaf" /\ ~heap[id].fringe

\* the table of 10.0.0.0/8 and 10.0.0.0/24 from which Delete takes 10.0.0.0/8
DeletesSlash8 ==
  /\ DOMAIN goldT = {Pfx4(10, 0, 0, 0, 8), Pfx4(10, 0, 0, 0, 24)}
  /\ last'.op = "Delete"
  /\ DOMAIN goldT' = {Pfx4(10, 0, 0, 0, 24)}

\* C19 as stated: on a table of 10.0.0.0/8 and 10.0.0.0/24, after
\* Delete(10.0.0.0/8), Lookup(10.0.0.5) returns not-found and Lookup(10.0.0.1)
\* returns the value of the /24.
C19_LookupAfterDelete ==
  [][DeletesSlash8 =>
       /\ ~TableLookup(heap', t', Addr4(10, 0, 0, 5)).ok
       /\ TableLookup(heap', t', Addr4(10, 0, 0, 1))
            = [val |-> goldT[Pfx4(10, 0, 0, 0, 24)], ok |-> TRUE]
    ]_vars

\* C19: on a table of 10.0.0.0/8 and 10.0.0.0/24, after Delete(10.0.0.0/8),
\* Lookup(10.0.0.5) and Lookup(10.0.0.1) return the value of the /24, in which
\* both addresses lie, and Lookup(10.1.0.0), outside the /24, returns
\* not-found.
C19_LookupInSlash24 ==
  [][DeletesSlash8 =>
       /\ TableLookup(heap', t', Addr4(10, 0, 0, 5))
            = [val |-> goldT[Pfx4(10, 0, 0, 0, 24)], ok |-> TRUE]
       /\ TableLookup(heap', t', Addr4(10, 0, 0, 1))
            = [val |-> goldT[Pfx4(10, 0, 0, 0, 24)], ok |-> TRUE]
       /\ ~TableLookup(heap', t', Addr4(10, 1, 0, 0)).ok
    ]_vars

\* Delete found a prefix and left 10.0.0.0/24 alone in the table, as a leaf of
\* the root
C19_Witness ==
  /\ last.op = "Delete"
  /\ last.ok
  /\ DOMAIN goldT = {Pfx4(10, 0, 0, 0, 24)}
  /\ ArrLen(heap[t.root4].children) = 1
  /\ heap[heap[t.root4].children.Items[1]].kind = "leaf"

\* the prefixes of one family that both golden tables hold
InBoth(g1, g2, is4) == {p \in DOMAIN g1 \cap DOMAIN g2 : p.is4 = is4}

\* C20: unionRec returns the number of prefixes stored in both tries, for
\* every combination of storage forms, so that size + other.size -
\* duplicates is the number of prefixes stored after Union.
C20_UnionDuplicates ==
  [][last'.op = "Union" =>
       /\ ~panicked'
       /\ t.size4 + o.size4 - t'.size4 = Cardinality(InBoth(goldT, goldO, TRUE))
       /\ t.size6 + o.size6 - t'.size6 = Cardinality(InBoth(goldT, goldO, FALSE))
       /\ t'.size4 = Cardinality({p \in DOMAIN goldT' : p.is4})
       /\ t'.size6 = Cardinality({p \in DOMAIN goldT' : ~p.is4})
    ]_vars

\* C29: after any sequence of InsertAt, DeleteAt and UpdateAt the number of
\* set bits is len(Items), the item of every set bit i is at the position
\* rank(i), Get(i) returns the item last stored at i, or ok = false when i
\* has been deleted since or was never set, and InsertAt, DeleteAt and
\* UpdateAt report whether bit i was set before the call.
C29_SparseArray ==
  [][/\ Cardinality(TheArray'.BitSet) = Len(TheArray'.Items)
     /\ TheArray'.BitSet = DOMAIN goldT'
     /\ \A i \in TheArray'.BitSet : TheArray'.Items[RankBelow(TheArray', i) + 1] = goldT'[i]
     /\ last'.op \in {"InsertAt", "DeleteAt", "UpdateAt"} =>
          last'.ok = (last'.arg \in DOMAIN goldT)
     /\ last'.op = "DeleteAt" =>
          last'.val = IF last'.arg \in DOMAIN goldT THEN goldT[last'.arg] ELSE Zero
     /\ last'.op = "UpdateAt" => last'.val = goldT'[last'.arg]
     /\ last'.op = "ArrayGet" =>
          IF last'.arg \in DOMAIN goldT
          THEN last'.ok /\ last'.val = goldT[last'.arg]
          ELSE ~last'.ok /\ last'.val = Zero
    ]_vars

\* an UpdateAt of a slot that was set, in an array of three items, the slot
\* neither the lowest nor the highest
C29_Witness ==
  /\ last.op = "UpdateAt"
  /\ last.ok
  /\ Len(TheArray.Items) = 3
  /\ RankBelow(TheArray, last.arg) = 1

\* C30: baseIndexToPrefix(prefixToBaseIndex(o, b)) = (o, b) for every prefix
\* length b in 0..8 and octet o whose low 8-b bits are zero, the index is in
\* 1..511, and octetToBaseIndex(a) = a + 256 = prefixToBaseIndex(a, 8).
C30_BaseIndexRoundTrip ==
  /\ last.op = "prefixToBaseIndex" => last.val \in 1..(2 * firstHostIndex - 1)
  /\ last.op = "octetToBaseIndex" =>
       /\ last.val = last.arg[1] + 256
       /\ last.val = prefixToBaseIndex(last.arg[1], 8)
  /\ last.op = "baseIndexToPrefix" => last.val = last.arg

\* the index of 160/3 was mapped back
C30_Witness ==
  /\ last.op = "baseIndexToPrefix"
  /\ last.arg = <<160, 3>>

\* C21: in a node whose prefixes were written by InsertAt and DeleteAt,
\* lpmGet(HostIdx(a)) returns, for every octet a, the base index and the
\* value of the longest stored stride prefix that contains a, or ok = false
\* when none contains it, and lpmTest(HostIdx(a)) is that ok.
C21_LpmOfNode ==
  /\ last.op = "lpmGet" =>
       <<last.val[1], last.val[2], last.ok>> = GoldStrideLpm(goldT, last.arg)
  /\ last.op = "lpmTest" => last.ok = GoldStrideLpm(goldT, last.arg)[3]
  /\ \A a \in 0..(maxItems - 1) :
       /\ lpmGet(heap, 1, octetToBaseIndex(a)) = GoldStrideLpm(goldT, a)
       /\ lpmTest(heap, 1, octetToBaseIndex(a)) = GoldStrideLpm(goldT, a)[3]

\* lpmGet found 80/4, with two shorter prefixes that contain the octet
\* stored as well
C21_Witness ==
  /\ last.op = "lpmGet"
  /\ last.ok
  /\ last.val[1] = 21
  /\ DOMAIN goldT = {2, 5, 21}

\* C22: for two nodes that hold only prefixes, n.overlaps(o, 0) is true
\* exactly when a base index of n and one of o are equal or one is the
\* other one shifted right.
C22_OverlapsRoutes ==
  last.op = "overlaps" =>
    last.ok = (\E a \in DOMAIN goldT : \E b \in DOMAIN goldO : StrideOverlaps(a, b))

\* the nodes overlap although no index is in both and, of the two indices
\* of n, the one that the scan from the lowest index of o meets overlaps
\* nothing in o
C22_Witness ==
  /\ last.op = "overlaps"
  /\ last.ok
  /\ DOMAIN goldT \cap DOMAIN goldO = {}
  /\ Cardinality(DOMAIN goldT) = 2
  /\ SetMin(DOMAIN goldT) < SetMin(DOMAIN goldO)
  /\ \A a \in DOMAIN goldT : \A b \in DOMAIN goldO :
       a >= SetMin(DOMAIN goldO) => ~StrideOverlaps(a, b)

\* C23: the two strategies of n.overlapsChildrenIn(o) return the same for
\* every set of prefixes of n and every set of children of o, and so does
\* overlapsChildrenIn, whichever the heuristic chooses.
C23_ChildrenInStrategies ==
  /\ overlapsChildrenInRange(heap, 1, 3) = overlapsChildrenInAllot(heap, 1, 3)
  /\ last.op = "overlapsChildrenIn" =>
       /\ last.ok = overlapsChildrenInRange(heap, 1, 3)
       /\ last.ok = overlapsChildrenInAllot(heap, 1, 3)
       /\ last.ok = (\E i \in DOMAIN goldT : \E addr \in heap[3].children.BitSet :
                       StrideContains(i, addr))

\* overlapsChildrenIn took the bitset strategy and found an overlap, with
\* children below the lowest prefix of n
C23_Witness ==
  /\ last.op = "overlapsChildrenIn"
  /\ last.ok
  /\ ArrLen(heap[3].children) >= magicNumber
  /\ ArrLen(heap[1].prefixes) > 0
  /\ \E addr \in heap[3].children.BitSet :
       octetToBaseIndex(addr) >= SetMin(DOMAIN goldT) /\ ~lpmTest(heap, 1, octetToBaseIndex(addr))

\* C24: no sequence of Insert, Delete, Union and Overlaps calls with valid
\* prefixes reaches a panic statement: insertAtDepth is never entered with
\* depth >= the number of address octets.
C24_NoPanic == ~panicked

\* the children below node n, which lies at depth and is reached by the
\* octets of path: the reference, the depth of the slot and the path with
\* the slot's address
RECURSIVE Placed(_, _, _, _)
Placed(h, n, path, depth) ==
  UNION { {[id |-> kid[1], depth |-> depth, path |-> kid[2]]}
            \cup (IF h[kid[1]].kind = "node" THEN Placed(h, kid[1], kid[2], depth + 1) ELSE {})
          : kid \in { <<MustGet(h[n].children, addr), Append(path, addr)>> :
                       addr \in h[n].children.BitSet } }

\* the leaves of one family of a table, as they are placed
PlacedLeaves(h, tbl, is4) ==
  { pl \in Placed(h, rootNodeByVersion(tbl, is4), <<>>, 0) : h[pl.id].kind = "leaf" }

\* C25: in every trie reached by Insert, InsertPersist, Delete and Union, a
\* leaf in a child slot of a node at depth d has fringe = true if and only if
\* its prefix length is 8 * (d + 1); a leaf that a split or the compression
\* moved to another depth has no stale flag.
C25_FringeFlags ==
  ~panicked =>
    \A tbl \in {t, o} : \A is4 \in BOOLEAN : \A pl \in PlacedLeaves(heap, tbl, is4) :
      heap[pl.id].fringe <=> (heap[pl.id].prefix.bits = 8 * (pl.depth + 1))

\* a Delete after which 10.0.0.0/16, a fringe at depth 1 or a prefix at depth
\* 2 before it, is the one leaf of the root and no fringe
C25_Witness ==
  /\ last.op = "Delete"
  /\ last.ok
  /\ DOMAIN goldT = {Pfx4(10, 0, 0, 0, 16)}
  /\ \E pl \in PlacedLeaves(heap, t, TRUE) :
       pl.depth = 0 /\ heap[pl.id].prefix = Pfx4(10, 0, 0, 0, 16) /\ ~heap[pl.id].fringe

\* the nodes of one family of a table, each with its depth and the octets
\* that lead to it
PlacedNodes(h, tbl, is4) ==
  {[id |-> rootNodeByVersion(tbl, is4), depth |-> 0, path |-> <<>>]}
    \cup { [id |-> pl.id, depth |-> pl.depth + 1, path |-> pl.path] :
             pl \in { q \in Placed(h, rootNodeByVersion(tbl, is4), <<>>, 0) :
                        h[q.id].kind = "node" } }

\* no bit of the address behind the prefix length is set
Masked(pfx) ==
  \A i \in 1..Len(pfx.addr) :
    IF pfx.bits >= 8 * i THEN TRUE
    ELSE IF pfx.bits <= 8 * (i - 1) THEN pfx.addr[i] = 0
    ELSE pfx.addr[i] % (2 ^ (8 * i - pfx.bits)) = 0

\* the prefixes that the nodes of one family of a table hold, reconstructed
\* from the path
NodePrefixes(h, tbl, is4) ==
  UNION { { cidrFromPath(StridePath(nd.path), nd.depth, is4, idx) : idx \in h[nd.id].prefixes.BitSet }
          : nd \in PlacedNodes(h, tbl, is4) }

\* the prefixes that the leaves of one family of a table hold
LeafPrefixes(h, tbl, is4) == { h[pl.id].prefix : pl \in PlacedLeaves(h, tbl, is4) }

\* every leaf of tbl lies on the path of its prefix and above its last
\* octet, and the leaves and the node prefixes are the prefixes of g
OnItsPath(h, tbl, g) ==
  /\ \A is4 \in BOOLEAN : \A pl \in PlacedLeaves(h, tbl, is4) :
       /\ h[pl.id].prefix.is4 = is4
       /\ Masked(h[pl.id].prefix)
       /\ SubSeq(h[pl.id].prefix.addr, 1, pl.depth + 1) = pl.path
       /\ h[pl.id].prefix.bits > 8 * pl.depth
       /\ Shr(h[pl.id].prefix.bits, 3) > pl.depth
  /\ \A is4 \in BOOLEAN : \A pfx \in NodePrefixes(h, tbl, is4) : Masked(pfx) /\ pfx \in DOMAIN g
  /\ UNION { NodePrefixes(h, tbl, is4) \cup LeafPrefixes(h, tbl, is4) : is4 \in BOOLEAN } = DOMAIN g

\* C26: in every trie reached by Insert, InsertPersist, Delete and Union, a
\* leaf in child slot c of a node reached by the octets o[0..d-1] holds a
\* masked prefix whose first d+1 octets are o[0..d-1], c, whose length is
\* above 8*d and whose last octet index bits >> 3 is above d; and a base
\* index of a node at depth d reconstructs to the prefix that was inserted.
C26_LeafOnItsPath ==
  ~panicked => OnItsPath(heap, t, goldT) /\ OnItsPath(heap, o, goldO)

\* a Delete that left 10.0.0.0/8 as the prefix idx 1 of the node at depth 1
\* and 10.0.0.0/16 as that node's fringe
C26_Witness ==
  /\ last.op = "Delete"
  /\ last.ok
  /\ DOMAIN goldT = {Pfx4(10, 0, 0, 0, 8), Pfx4(10, 0, 0, 0, 16)}
  /\ \E nd \in PlacedNodes(heap, t, TRUE) : nd.depth = 1 /\ Test(heap[nd.id].prefixes, 1)
  /\ \E pl \in PlacedLeaves(heap, t, TRUE) :
       pl.depth = 1 /\ pl.path = <<10, 0>> /\ heap[pl.id].prefix = Pfx4(10, 0, 0, 0, 16)

\* the heap and the table after Insert of the prefixes pfxs with their
\* values in g, one after the other
RECURSIVE InsertedAll(_, _, _, _)
InsertedAll(h, tbl, g, pfxs) ==
  IF pfxs = <<>>
  THEN [h |-> h, tbl |-> tbl]
  ELSE Bind(TableInsert(h, tbl, Head(pfxs), g[Head(pfxs)]),
            LAMBDA r : InsertedAll(r.h, r.tbl, g, Tail(pfxs)))

\* the heap and the tables after nothing but the Inserts of g's pairs, in
\* CIDR sort order, into a new table
NeverMore(g) ==
  Bind(InsertedAll(<<NewNode, NewNode, NewNode, NewNode>>,
                   [root4 |-> 1, root6 |-> 2, size4 |-> 0, size6 |-> 0],
                   g, SortedPrefixes(DOMAIN g)),
       LAMBDA b : Compact(b.h, b.tbl, [root4 |-> 3, root6 |-> 4, size4 |-> 0, size6 |-> 0]))

\* C27: the trie is history independent under Insert and Delete: whatever
\* sequence of Insert and Delete calls led to the stored pairs, the trie is
\* the one that their Inserts alone build, with the same prefix indices in
\* the same nodes, the same child slots and every leaf at the same depth
\* with the same fringe flag.
C27_HistoryIndependent ==
  \A c \in {NeverMore(goldT)} : heap = c.h /\ t = c.t

\* a Delete that left the host route 10.0.0.1/32 alone, as a leaf of the root
C27_Witness ==
  /\ last.op = "Delete"
  /\ last.ok
  /\ DOMAIN goldT = {Pfx4(10, 0, 0, 1, 32)}
  /\ PlacedLeaves(heap, t, TRUE) = {[id |-> heap[t.root4].children.Items[1], depth |-> 0, path |-> <<10>>]}

\* the operations that join the one table into the other
Unions == {"Union", "UnionO"}

\* C28: unionRec never modifies o and creates no sharing: after t.Union(o)
\* every object and every pair of o is as it was, no object is reachable
\* from both tables, and an Insert or Delete on either table after it does
\* not change what All, Get and Lookup return for the other.
C28_UnionFrame ==
  [][/\ last'.op = "Union" =>
          /\ last'.frame
          /\ TableAll(heap', o') = TableAll(heap, o)
          /\ StoredOnce(heap', o', goldO)
          /\ Reach(heap', Roots(t')) \cap Reach(heap', Roots(o')) = {}
     /\ last'.op = "UnionO" =>
          /\ last'.frame
          /\ TableAll(heap', t') = TableAll(heap, t)
          /\ StoredOnce(heap', t', goldT)
          /\ Reach(heap', Roots(t')) \cap Reach(heap', Roots(o')) = {}
     /\ (last.op \in Unions /\ last'.op \in {"Insert", "Delete"}) =>
          Observed(heap', o', PfxClone, AddrClone) = Observed(heap, o, PfxClone, AddrClone)
     /\ (last.op \in Unions /\ last'.op \in {"InsertO", "DeleteO"}) =>
          Observed(heap', t', PfxClone, AddrClone) = Observed(heap, t, PfxClone, AddrClone)
    ]_vars

\* a Union that gave the table copies of the node and the leaf of its operand
C28_Witness ==
  /\ last.op = "Union"
  /\ ~panicked
  /\ DOMAIN goldO = {Pfx4(10, 0, 0, 0, 8), Pfx4(10, 0, 0, 1, 32)}
  /\ DOMAIN goldT = PfxClone
  /\ Cardinality(Reach(heap, Roots(t))) = Cardinality(Reach(heap, Roots(o))) + 1

====
